---- MODULE Spec2Model ----
(***************************************************************************)
(* The BacPipes engine (src/worker/mqtt_publisher.py): the MQTT callback   *)
(* thread that queues write commands, and the main loop that drains the    *)
(* queue, polls the enabled points with retry, publishes and sleeps.       *)
(* Times are milliseconds.                                                 *)
(***************************************************************************)
EXTENDS Integers, Sequences, FiniteSets, TLC, Bags

(* ------------------------------ bounds -------------------------------- *)

\* Spec, the whole engine: write commands delivered, and main loop iterations.
MaxMsgs == 2
MaxTicks == 2
\* WriteSpec, the engine with no enabled point.
WriteMsgs == 3
WriteTicks == 3
\* PollSpec, the engine with no write command.
PollTicks == 3
\* ReadSpec, one point and every pattern of replies.
ReadTicks == 2
\* ValueSpec, one point and every kind of propertyValue.
ValueTicks == 3
\* FaultSpec, the poller with points whose handling raises.
FaultTicks == 3
\* LifecycleSpec, the engine from startup to exit: write commands delivered,
\* and main loop iterations.
LifeMsgs == 1
LifeTicks == 3
\* DbSpec, the poller with a configuration store that fails: main loop
\* iterations, and outages of the store.
DbTicks == 4
MaxOutages == 1
\* CommandSpec, the write executor with commands of every kind: write
\* commands delivered, and main loop iterations.
CommandMsgs == 1
CommandTicks == 2
\* SinkSpec: the distinct dedup keys in the message stream.
MaxStreamKeys == 1001
\* SinkFaultSpec: the distinct dedup keys in the message stream.
FaultStreamKeys == 4
\* DiscoverySpec: I-Am messages received in one run, and failures of the
\* database or the BACnet stack in all.
MaxIAm == 2
MaxFaults == 1

(* ------------------------- program constants -------------------------- *)

max_retries == 3
base_timeout == 6000
WriteTimeoutMs == 10000
RetrySleepMs == 500
LoopSleepMs == 5000
MinuteMs == 60000

(* --------------------------- configuration ---------------------------- *)

\* Rows of the Point table (joined with Device); the ids are the primary key.
PointIds == {1, 2}

\* p."pollInterval" in milliseconds.
pollInterval(p) == IF p = 1 THEN 10000 ELSE 60000

\* p."mqttTopic".
mqttTopic(p) == IF p = 1 THEN "site/ahu_1/p1/presentValue" ELSE "site/ahu_1/p2/presentValue"

\* (siteId, equipmentType, equipmentId) of the point; "" is an absent tag.
equipmentKey(p) == IF p = 1 THEN <<"Site A", "AHU", "1">> ELSE <<"", "AHU", "1">>

\* The instants at which the engine may enter its main loop.
StartTimes == {117000, 120000}

\* Values a write command may carry.
Num(n) == [t |-> "num", n |-> n]
Text == [t |-> "text", n |-> 0]
Null == [t |-> "null", n |-> 0]

\* The JSON bodies delivered on bacnet/write/command (jobId is added on arrival).
CommandShapes ==
  { [objectType |-> "analog-value", value |-> Num(21), release |-> FALSE, priority |-> 8],
    [objectType |-> "analog-value", value |-> Text, release |-> FALSE, priority |-> 8] }

\* Commands of every object type family, with values that convert and values
\* that do not, releases (one with value null, as the API sends it), and a
\* priority outside 1..16.
CommandKinds ==
  CommandShapes \cup
  { [objectType |-> "analog-output", value |-> Null, release |-> TRUE, priority |-> 8],
    [objectType |-> "binary-value", value |-> Text, release |-> TRUE, priority |-> 8],
    [objectType |-> "multi-state-value", value |-> Num(3), release |-> TRUE, priority |-> 8],
    [objectType |-> "analog-input", value |-> Null, release |-> FALSE, priority |-> 8],
    [objectType |-> "binary-value", value |-> Num(0), release |-> FALSE, priority |-> 8],
    [objectType |-> "binary-output", value |-> Text, release |-> FALSE, priority |-> 8],
    [objectType |-> "binary-input", value |-> Null, release |-> FALSE, priority |-> 8],
    [objectType |-> "multi-state-value", value |-> Num(3), release |-> FALSE, priority |-> 8],
    [objectType |-> "multi-state-output", value |-> Text, release |-> FALSE, priority |-> 8],
    [objectType |-> "analog-value", value |-> Num(21), release |-> FALSE, priority |-> 17],
    [objectType |-> "analog-value", value |-> Num(21), release |-> FALSE, priority |-> 0] }

\* What becomes of a WriteProperty request: the peer acknowledges it, the peer
\* refuses it (an Error, Reject or Abort PDU comes back), nothing comes back
\* within the timeout, or the transport raises.
WriteReplies == {"ack", "refused", "timeout", "transport"}

\* What one ReadProperty attempt meets: a propertyValue, one extract_value
\* cannot decode, an answer without propertyValue, no answer, or a raised
\* exception.
ReadReplies == {"value", "undecodable", "noPropertyValue", "timeout", "exception"}

\* The replies the engine specification draws from: the device answers the
\* first attempt with a value or with something undecodable, or it is down and
\* answers none of the attempts. ReadSpec draws every attempt from ReadReplies.
EngineReadReplies == {"value", "undecodable", "timeout"}

None == "None"

\* A ReadProperty answer's propertyValue as extract_value sees it: host says it
\* is a Python int, float or bool; attr is its scalar .value attribute (NoAttr
\* when it has none); repr is str() of it; tag is the tag_number of the tag
\* with data in its tagList (0 when it has no tagList) and data what the tag's
\* bytes decode to ("" for empty tag_data).
NoAttr == "NoAttr"
AnyRepr == "<bacpypes3.primitivedata.Any object at 0x7f3a>"

BacnetValue(host, attr, repr, tag, data) ==
  [host |-> host, attr |-> attr, repr |-> repr, tag |-> tag, data |-> data]

\* An Any holding a Real.
RealValue == BacnetValue(FALSE, NoAttr, AnyRepr, 4, "21.5")

BacnetValues ==
  { RealValue,
    BacnetValue(TRUE, NoAttr, "21.5", 0, ""),
    BacnetValue(FALSE, "bacpypes3 room", "bacpypes3 room", 0, ""),
    BacnetValue(FALSE, NoAttr, AnyRepr, 7, "occupied"),
    BacnetValue(FALSE, NoAttr, AnyRepr, 7, "dock: object at bay 3"),
    BacnetValue(FALSE, NoAttr, AnyRepr, 99, "x"),
    BacnetValue(FALSE, NoAttr, AnyRepr, 4, ""),
    BacnetValue(FALSE, NoAttr, AnyRepr, 0, ""),
    BacnetValue(FALSE, NoAttr, "a text of 100 characters or more", 0, "") }

\* The texts that parse as a number (float(...) or int(...) succeeds).
Numerals == {"21.5"}

\* len(value_clean) >= 100.
LongTexts == {"a text of 100 characters or more"}

\* Python's "w in v" for the two markers the code looks for.
Contains(v, w) ==
  CASE w = "bacpypes3" -> v \in {AnyRepr, "bacpypes3 room"}
    [] w = "object at" -> v \in {AnyRepr, "dock: object at bay 3"}
    [] OTHER -> FALSE

VARIABLES
  shutdown_requested,     \* module global, set by signal_handler
  mqtt_connected,         \* self.mqtt_connected
  pending_write_commands, \* self.pending_write_commands
  point_last_poll,        \* self.point_last_poll: a dict, point id -> time
  poll_cycle,             \* self.poll_cycle
  pc,                     \* where the main loop stands
  now,                    \* the clock
  ticks,                  \* main loop iterations started
  msgs,                   \* MQTT messages delivered so far
  command,                \* the command being executed
  points,                 \* poll_and_publish: the list returned by get_enabled_points
  idx,                    \* poll_and_publish: position of the for loop in points
  current_time,           \* poll_and_publish: cycle_start
  stats,                  \* poll_and_publish: the tick's counters
  equipment_groups,       \* poll_and_publish: equipment key -> point data
  attempt,                \* read_with_retry: the for loop's attempt
  db_enabled,             \* the config store: points with mqttPublish and enabled
  enable_batch_publishing,\* self.enable_batch_publishing, loaded from MqttConfig
  db_last,                \* the config store: point id -> lastPollTime written
  write_results,          \* messages published on bacnet/write/result
  tick_pubs,              \* messages published by the current tick
  inflight,               \* BACnet requests awaiting their reply
  write_log,              \* history: jobIds in the order their WriteProperty was sent
  write_replies,          \* history: jobId -> what became of its WriteProperty
  drain_snapshot,         \* history: jobIds queued when the iteration started
  tick_reads,             \* history: points read_with_retry was called for this tick
  rd,                     \* history: the current (or last) read_with_retry call
  first_seen,             \* history: point id -> time of the tick that first saw it
  first_read,             \* history: point id -> time its first ReadProperty was sent
  db_up,                  \* the config store answers queries
  db_conn,                \* self.db_conn: "ok", "broken" once a query failed, "closed"
  outages,                \* outages of the config store so far
  mqtt_client,            \* self.mqtt_client: "connected" or "disconnected"
  exit_code,              \* what run returned: <<>> while it runs
  caught,                 \* history: exceptions the except branch of run logged
  \* the sink bridge (src/telegraf/mqtt_to_timescaledb.py)
  seen_messages,          \* the dedup cache: dedup keys in insertion order
  sensor_readings,        \* the rows inserted into sensor_readings
  stream_keys,            \* history: the number of distinct dedup keys received
  sink_last,              \* history: the last message and what became of it
  sink_counted,           \* history: the counters of stats the last message added 1 to
  utcnow,                 \* the sink bridge's clock: seconds after 2024-03-01T10:00:00
  \* the discovery worker (src/worker/job_processor.py, discovery.py)
  jobs,                   \* the DiscoveryJob table: job id -> row
  device_table,           \* the Device table
  point_table,            \* the Point table
  dpc,                    \* where the job processor stands
  job,                    \* the id of the job being processed (0: none)
  found_devices,          \* app.found_devices
  all_points,             \* app.all_points
  tasks,                  \* the do_IAmRequest handlers still running, a bag
  txn,                    \* save_to_database: the transaction in progress
  faults,                 \* failures of the database or the BACnet stack so far
  job_log                 \* history: what each completed run found and left

engineVars == <<shutdown_requested, mqtt_connected, pending_write_commands, point_last_poll,
          poll_cycle, pc, now, ticks, msgs, command, points, idx, current_time, stats,
          equipment_groups, attempt, db_enabled, enable_batch_publishing,
          db_last, write_results, tick_pubs,
          inflight, write_log, write_replies, drain_snapshot, tick_reads, rd,
          first_seen, first_read, db_up, db_conn, outages, mqtt_client, exit_code,
          caught>>

\* The connections of the engine process and what it returned.
hostVars == <<db_up, db_conn, outages, mqtt_client, exit_code, caught>>

sinkVars == <<seen_messages, sensor_readings, stream_keys, sink_last, sink_counted, utcnow>>

discoveryVars == <<jobs, device_table, point_table, dpc, job, found_devices,
                   all_points, tasks, txn, faults, job_log>>

vars == <<engineVars, sinkVars, discoveryVars>>

(* ------------------------------ helpers ------------------------------- *)

FloorTo(t, d) == (t \div d) * d

\* math.ceil(t / d) * d for non-negative integers.
CeilTo(t, d) == ((t + d - 1) \div d) * d

\* A Python dict as a function: d[k] = v.
DictSet(d, k, v) == (k :> v) @@ d

Range(s) == { s[i] : i \in 1..Len(s) }

NoRead == [p |-> 0, timeouts |-> <<>>, silent |-> TRUE, sleeps |-> 0,
           started |-> 0, ended |-> 0, done |-> FALSE, value |-> None]

NoCommand == [jobId |-> 0, objectType |-> "", value |-> Null, release |-> FALSE,
              priority |-> 8]

ZeroStats == [total |-> 0, success |-> 0, failed |-> 0, skipped |-> 0,
              individual |-> 0, batch |-> 0]

\* The rows of the DiscoveryJob table, in the order of "startedAt".
DiscoveryJobs == {1, 2}

\* The devices on the network that answer a Who-Is, and the objectList of each.
NetDevices == {3001, 3002}

ObjectId(type, instance) == [type |-> type, instance |-> instance]

objectList(d) ==
  IF d = 3001
    THEN <<ObjectId("device", 3001), ObjectId("analog-input", 1), ObjectId("analog-input", 2)>>
    ELSE <<ObjectId("device", 3002), ObjectId("analog-value", 1)>>

\* The objectName of the device object.
deviceName(d) == IF d = 3001 THEN "AHU-1" ELSE "VAV-2"

\* The tables and the job processor before its first poll: the jobs created by
\* the API are pending.
\* No transaction: the tables as the cursor sees them, the position of the
\* loop over devices, the points of the current device still to save, the id
\* RETURNING gave, and the two counters.
NoTxn == [devices |-> {}, points |-> {}, next |-> 0, todo |-> <<>>,
          db_device_id |-> 0, devices_saved |-> 0, points_saved |-> 0]

DiscoveryInit ==
  /\ jobs = [j \in DiscoveryJobs |->
               [status |-> "pending", devicesFound |-> 0, pointsFound |-> 0,
                errorMessage |-> None]]
  /\ device_table = {}
  /\ point_table = {}
  /\ dpc = "poll"
  /\ job = 0
  /\ found_devices = <<>>
  /\ all_points = <<>>
  /\ tasks = EmptyBag
  /\ txn = NoTxn
  /\ faults = 0
  /\ job_log = <<>>

\* The sink bridge after main connected: the module globals.
SinkInit ==
  /\ seen_messages = <<>>
  /\ sensor_readings = <<>>
  /\ stream_keys = 0
  /\ sink_last = [sec |-> 0, frac |-> 0, outcome |-> "none"]
  /\ sink_counted = {}
  /\ utcnow = 0

\* The state in which run enters its main loop, at one of Starts, with the
\* configuration store holding one of Stores.
InitWith(Stores, Starts) ==
  /\ SinkInit
  /\ DiscoveryInit
  /\ shutdown_requested = FALSE
  /\ mqtt_connected = TRUE
  /\ pending_write_commands = <<>>
  /\ point_last_poll = <<>>
  /\ poll_cycle = 0
  /\ pc = "loop"
  /\ now \in Starts
  /\ ticks = 0
  /\ msgs = 0
  /\ command = NoCommand
  /\ points = <<>>
  /\ idx = 0
  /\ current_time = 0
  /\ stats = ZeroStats
  /\ equipment_groups = <<>>
  /\ attempt = 0
  /\ db_enabled \in Stores
  /\ enable_batch_publishing \in BOOLEAN
  /\ db_last = <<>>
  /\ write_results = <<>>
  /\ tick_pubs = <<>>
  /\ inflight = <<>>
  /\ write_log = <<>>
  /\ write_replies = <<>>
  /\ drain_snapshot = {}
  /\ tick_reads = <<>>
  /\ rd = NoRead
  /\ first_seen = <<>>
  /\ first_read = <<>>
  /\ db_up = TRUE
  /\ db_conn = "ok"
  /\ outages = 0
  /\ mqtt_client = "connected"
  /\ exit_code = <<>>
  /\ caught = 0

(* ----------------------- signals and MQTT thread ---------------------- *)

\* signal_handler: SIGTERM or SIGINT sets the flag, while the main loop stands
\* at one of When. Only the while test of run reads the flag, so where the
\* moment of arrival does not matter a signal that arrives during an iteration
\* is delivered as one that arrives during the sleep that ends it.
DuringSleep == {"sleep"}

signal_handler(When) ==
  /\ pc \in When
  /\ ~shutdown_requested
  /\ shutdown_requested' = TRUE
  /\ UNCHANGED <<sinkVars, discoveryVars, hostVars>>
  /\ UNCHANGED <<mqtt_connected, pending_write_commands, point_last_poll, poll_cycle, pc,
                 now, ticks, msgs, command, points, idx, current_time, stats,
                 equipment_groups, attempt, db_enabled, enable_batch_publishing, db_last,
                 write_results, tick_pubs, inflight, write_log, write_replies,
                 drain_snapshot, tick_reads, rd, first_seen, first_read>>

\* on_mqtt_connect with rc = 0. Only publish_individual_topic reads
\* mqtt_connected, after a read, so the callbacks are delivered while a read is
\* awaited.
on_mqtt_connect ==
  /\ pc = "read_wait"
  /\ ~mqtt_connected
  /\ mqtt_connected' = TRUE
  /\ UNCHANGED <<sinkVars, discoveryVars, hostVars>>
  /\ UNCHANGED <<shutdown_requested, pending_write_commands, point_last_poll, poll_cycle,
                 pc, now, ticks, msgs, command, points, idx, current_time, stats,
                 equipment_groups, attempt, db_enabled, enable_batch_publishing, db_last,
                 write_results, tick_pubs, inflight, write_log, write_replies,
                 drain_snapshot, tick_reads, rd, first_seen, first_read>>

\* on_mqtt_disconnect with rc # 0.
on_mqtt_disconnect ==
  /\ pc = "read_wait"
  /\ mqtt_connected
  /\ mqtt_connected' = FALSE
  /\ UNCHANGED <<sinkVars, discoveryVars, hostVars>>
  /\ UNCHANGED <<shutdown_requested, pending_write_commands, point_last_poll, poll_cycle,
                 pc, now, ticks, msgs, command, points, idx, current_time, stats,
                 equipment_groups, attempt, db_enabled, enable_batch_publishing, db_last,
                 write_results, tick_pubs, inflight, write_log, write_replies,
                 drain_snapshot, tick_reads, rd, first_seen, first_read>>

\* The command dict json.loads returns; the arrival number stands for its jobId.
ParsedCommand(shape, n) ==
  [jobId |-> n, objectType |-> shape.objectType, value |-> shape.value,
   release |-> shape.release, priority |-> shape.priority]

CallbackSendsWrite(requests, c) == Append(requests, [svc |-> "write", target |-> c.jobId])

\* on_mqtt_message, "Add to queue for processing in main event loop": the
\* callback thread creates no task and sends no request.
CallbackRequests(requests, c) == requests

\* on_mqtt_message, a JSON object on bacnet/write/command, one of Shapes:
\* appended to the queue.
on_mqtt_message(limit, Shapes) ==
  /\ pc # "stopped"
  /\ msgs < limit
  /\ msgs' = msgs + 1
  /\ \E shape \in Shapes :
       /\ pending_write_commands' =
            Append(pending_write_commands, ParsedCommand(shape, msgs + 1))
       /\ inflight' = CallbackRequests(inflight, ParsedCommand(shape, msgs + 1))
  /\ UNCHANGED <<sinkVars, discoveryVars, hostVars>>
  /\ UNCHANGED <<shutdown_requested, mqtt_connected, point_last_poll, poll_cycle, pc, now,
                 ticks, command, points, idx, current_time, stats, equipment_groups,
                 attempt, db_enabled, enable_batch_publishing, db_last, write_results,
                 tick_pubs, write_log, write_replies, drain_snapshot,
                 tick_reads, rd, first_seen, first_read>>

\* on_mqtt_message, a payload json.loads rejects (or one that is no JSON object):
\* logged, nothing queued.
on_mqtt_message_invalid ==
  /\ pc # "stopped"
  /\ UNCHANGED <<sinkVars, discoveryVars, hostVars>>
  /\ UNCHANGED <<shutdown_requested, mqtt_connected, pending_write_commands,
                 point_last_poll, poll_cycle, pc, now, ticks, msgs, command, points, idx,
                 current_time, stats, equipment_groups, attempt, db_enabled,
                 enable_batch_publishing, db_last, write_results, tick_pubs, inflight,
                 write_log, write_replies, drain_snapshot, tick_reads, rd, first_seen,
                 first_read>>

\* The configuration store gains an enabled point (an external edit); the
\* engine sees the store only in get_enabled_points, at the start of a poll.
DbEnablePoint ==
  /\ pc = "poll"
  /\ \E p \in PointIds \ db_enabled : db_enabled' = db_enabled \cup {p}
  /\ UNCHANGED <<sinkVars, discoveryVars, hostVars>>
  /\ UNCHANGED <<shutdown_requested, mqtt_connected, pending_write_commands,
                 point_last_poll, poll_cycle, pc, now, ticks, msgs, command, points, idx,
                 current_time, stats, equipment_groups, attempt, enable_batch_publishing,
                 db_last, write_results, tick_pubs, inflight, write_log, write_replies,
                 drain_snapshot, tick_reads, rd, first_seen, first_read>>

\* The configuration store stops answering (the server restarts, the network
\* drops); the engine meets it where it runs a statement, at the start of a
\* poll or after a read.
db_down(limit) ==
  /\ pc \in {"poll", "read_wait"}
  /\ db_up
  /\ outages < limit
  /\ db_up' = FALSE
  /\ outages' = outages + 1
  /\ UNCHANGED <<sinkVars, discoveryVars, db_conn, mqtt_client, exit_code, caught>>
  /\ UNCHANGED <<shutdown_requested, mqtt_connected, pending_write_commands,
                 point_last_poll, poll_cycle, pc, now, ticks, msgs, command, points, idx,
                 current_time, stats, equipment_groups, attempt, db_enabled,
                 enable_batch_publishing, db_last, write_results, tick_pubs, inflight,
                 write_log, write_replies, drain_snapshot, tick_reads, rd, first_seen,
                 first_read>>

\* The configuration store answers again.
db_restore ==
  /\ pc \in {"poll", "read_wait"}
  /\ ~db_up
  /\ db_up' = TRUE
  /\ UNCHANGED <<sinkVars, discoveryVars, db_conn, outages, mqtt_client, exit_code, caught>>
  /\ UNCHANGED <<shutdown_requested, mqtt_connected, pending_write_commands,
                 point_last_poll, poll_cycle, pc, now, ticks, msgs, command, points, idx,
                 current_time, stats, equipment_groups, attempt, db_enabled,
                 enable_batch_publishing, db_last, write_results, tick_pubs, inflight,
                 write_log, write_replies, drain_snapshot, tick_reads, rd, first_seen,
                 first_read>>

(* ---------------------------- write executor -------------------------- *)

JobIds(q) == { q[i].jobId : i \in 1..Len(q) }

\* float(value) / int(value): only a number converts.
Converts(v) == v.t = "num"

\* 1 if value else 0.
Truthy(v) == (v.t = "num" /\ v.n # 0) \/ v.t = "text"

AnalogTypes == {"analog-input", "analog-output", "analog-value"}
BinaryTypes == {"binary-input", "binary-output", "binary-value"}
MultiStateTypes == {"multi-state-input", "multi-state-output", "multi-state-value"}

write_value_by_type(c) ==
  IF c.objectType \in BinaryTypes
    THEN [tag |-> "Unsigned", n |-> IF Truthy(c.value) THEN 1 ELSE 0]
  ELSE IF ~Converts(c.value) THEN [tag |-> "EncodeError", n |-> 0]
  ELSE IF c.objectType \in MultiStateTypes THEN [tag |-> "Unsigned", n |-> c.value.n]
  ELSE [tag |-> "Real", n |-> c.value.n]

\* write_bacnet_value, "Prepare value based on type and release flag": the
\* application-tagged value, or EncodeError when the conversion raises.
write_value(c) ==
  IF c.release THEN [tag |-> "Null", n |-> 0]
  ELSE IF c.objectType \in AnalogTypes \cup MultiStateTypes
    THEN IF c.objectType \in MultiStateTypes
           THEN IF Converts(c.value) THEN [tag |-> "Unsigned", n |-> c.value.n]
                                     ELSE [tag |-> "EncodeError", n |-> 0]
           ELSE IF Converts(c.value) THEN [tag |-> "Real", n |-> c.value.n]
                                     ELSE [tag |-> "EncodeError", n |-> 0]
  ELSE IF c.objectType \in BinaryTypes
    THEN [tag |-> "Unsigned", n |-> IF Truthy(c.value) THEN 1 ELSE 0]
  ELSE IF Converts(c.value) THEN [tag |-> "Real", n |-> c.value.n]
                            ELSE [tag |-> "EncodeError", n |-> 0]

\* write_bacnet_value, the outer except: (False, "BACnet write error: ...").
EncodeFailure == [success |-> FALSE, error |-> "BACnet write error"]

\* write_bacnet_value, "Send request with timeout": the future of
\* bacnet_app.request resolves with whatever APDU answers the request, the
\* acknowledgement as well as an Error, Reject or Abort PDU, and any response
\* is returned as (True, None); only a timeout or a raised exception fails.
write_outcome(reply) ==
  IF reply = "timeout"
    THEN [success |-> FALSE, error |-> "BACnet write request timeout (10s)"]
  ELSE IF reply = "transport"
    THEN [success |-> FALSE, error |-> "BACnet write failed"]
  ELSE [success |-> TRUE, error |-> None]

\* execute_write_command, "Publish result": the WriteResult payload.
WriteResult(c, o) ==
  [jobId |-> c.jobId, success |-> o.success,
   error |-> IF ~o.success THEN o.error ELSE None, release |-> c.release]

PublishResultOnSuccessOnly(results, r) == IF r.success THEN Append(results, r) ELSE results

\* mqtt_client.publish("bacnet/write/result", ...).
PublishResult(results, r) == Append(results, r)

DequeueLast(q) == [command |-> q[Len(q)], rest |-> SubSeq(q, 1, Len(q) - 1)]

DequeuePeek(q) == [command |-> Head(q), rest |-> q]

\* process_write_commands: self.pending_write_commands.pop(0).
Dequeue(q) == [command |-> Head(q), rest |-> Tail(q)]

\* The loop drains only what was queued when the iteration started.
WhilePendingSnapshot(q) == q # <<>> /\ Head(q).jobId \in drain_snapshot

\* process_write_commands: the while condition.
WhilePending(q) == q # <<>>

AfterExecuteFallThrough == "poll"

\* process_write_commands: after execute_write_command the while loop tests again.
AfterExecute == "pw_check"

\* process_write_commands: the while test.
pw_check ==
  /\ pc = "pw_check"
  /\ pc' = IF WhilePending(pending_write_commands) THEN "pw_pop" ELSE "poll"
  /\ UNCHANGED <<sinkVars, discoveryVars, hostVars>>
  /\ UNCHANGED <<shutdown_requested, mqtt_connected, pending_write_commands,
                 point_last_poll, poll_cycle, now, ticks, msgs, command, points, idx,
                 current_time, stats, equipment_groups, attempt, db_enabled,
                 enable_batch_publishing, db_last, write_results, tick_pubs, inflight,
                 write_log, write_replies, drain_snapshot, tick_reads, rd, first_seen,
                 first_read>>

\* process_write_commands pops the head; execute_write_command and
\* write_bacnet_value run up to the await of the WriteProperty request. A value
\* that does not convert is answered at once with an error result.
pw_pop ==
  /\ pc = "pw_pop"
  /\ LET d == Dequeue(pending_write_commands)
         c == d.command
     IN /\ pending_write_commands' = d.rest
        /\ command' = c
        /\ IF write_value(c).tag = "EncodeError"
             THEN /\ write_results' = PublishResult(write_results, WriteResult(c, EncodeFailure))
                  /\ write_replies' = DictSet(write_replies, c.jobId, "encode")
                  /\ pc' = AfterExecute
                  /\ UNCHANGED <<inflight, write_log>>
             ELSE /\ inflight' = Append(inflight, [svc |-> "write", target |-> c.jobId,
                                                  value |-> write_value(c)])
                  /\ write_log' = Append(write_log, c.jobId)
                  /\ pc' = "write_wait"
                  /\ UNCHANGED <<write_results, write_replies>>
  /\ UNCHANGED <<sinkVars, discoveryVars, hostVars>>
  /\ UNCHANGED <<shutdown_requested, mqtt_connected, point_last_poll, poll_cycle, now,
                 ticks, msgs, points, idx, current_time, stats, equipment_groups, attempt,
                 db_enabled, enable_batch_publishing, db_last, tick_pubs, drain_snapshot,
                 tick_reads, rd, first_seen, first_read>>

\* The await of the WriteProperty request ends: a response, the 10 s timeout or
\* an exception; execute_write_command publishes the result.
write_reply ==
  /\ pc = "write_wait"
  /\ \E reply \in WriteReplies :
       /\ now' = now + (IF reply = "timeout" THEN WriteTimeoutMs ELSE 0)
       /\ write_results' =
            PublishResult(write_results, WriteResult(command, write_outcome(reply)))
       /\ write_replies' = DictSet(write_replies, command.jobId, reply)
  /\ inflight' = SubSeq(inflight, 1, Len(inflight) - 1)
  /\ pc' = AfterExecute
  /\ UNCHANGED <<sinkVars, discoveryVars, hostVars>>
  /\ UNCHANGED <<shutdown_requested, mqtt_connected, pending_write_commands,
                 point_last_poll, poll_cycle, ticks, msgs, command, points, idx,
                 current_time, stats, equipment_groups, attempt, db_enabled,
                 enable_batch_publishing, db_last, tick_pubs, write_log, drain_snapshot,
                 tick_reads, rd, first_seen, first_read>>

(* ------------------------------- poller ------------------------------- *)

\* get_enabled_points: the enabled rows, ORDER BY d.id, p."objectInstance".
RECURSIVE Ascending(_)
Ascending(S) ==
  IF S = {} THEN <<>>
  ELSE LET m == CHOOSE x \in S : \A y \in S : x <= y
       IN <<m>> \o Ascending(S \ {m})

\* A statement on self.db_conn succeeds: the store answers and no statement on
\* the connection has failed before (psycopg2 refuses a connection the server
\* dropped, and every statement of the transaction a failure aborted; the
\* engine calls neither rollback nor connect_database after startup).
DbAnswers == db_up /\ db_conn = "ok"

\* What a statement leaves of self.db_conn.
AfterQuery == IF DbAnswers THEN db_conn ELSE "broken"

\* get_enabled_points: the rows, or [] from the except branch.
get_enabled_points == IF DbAnswers THEN Ascending(db_enabled) ELSE <<>>

AttemptTimeoutFromFirst(a) == base_timeout * (2 ^ a)

\* read_with_retry, "Calculate timeout" (exponential_backoff is True).
AttemptTimeout(a) == IF a > 0 THEN base_timeout * (2 ^ (a - 1)) ELSE base_timeout

IsLastAttemptOneLater(a) == a >= max_retries + 1

\* read_with_retry: range(max_retries + 1) is exhausted after this attempt, and
\* "if attempt < self.max_retries" skips the sleep.
IsLastAttempt(a) == a >= max_retries

LastPollAlways(plp, p, value, t) == DictSet(plp, p, t)

LastPollKeep(plp, p, value, t) == plp

\* poll_and_publish: point_last_poll is set only "if value is not None".
LastPollAfterRead(plp, p, value, t) == IF value # None THEN DictSet(plp, p, t) ELSE plp

NextIndexStuck(i) == i

\* poll_and_publish: "for point in points" moves to the next row.
NextIndex(i) == i + 1

\* The tag numbers extract_value decodes: Boolean, Unsigned, Integer, Real,
\* Double, CharacterString, Enumerated.
DecodedTags == {1, 2, 3, 4, 5, 7, 9}

\* extract_value: the host value of a propertyValue, or None.
extract_value(bv) ==
  IF bv.host THEN bv.repr
  ELSE IF bv.attr # NoAttr THEN bv.attr
  ELSE IF Contains(bv.repr, "bacpypes3") /\ Contains(bv.repr, "object at")
    THEN IF bv.tag = 0 \/ bv.data = "" THEN None
         ELSE IF bv.tag \in DecodedTags THEN bv.data
         ELSE None
  ELSE IF bv.repr \in Numerals THEN bv.repr
  ELSE IF bv.repr \notin LongTexts THEN bv.repr
  ELSE None

\* publish_individual_topic, "Check if value is an object representation
\* string": isinstance(value, str) and ("bacpypes3" in value or "object at" in value).
LooksLikeObject(value) ==
  /\ value \notin Numerals
  /\ Contains(value, "bacpypes3") \/ Contains(value, "object at")

\* publish_individual_topic: the guards before the publish.
publish_individual_topic(p, value) ==
  /\ mqttTopic(p) # ""
  /\ mqtt_connected
  /\ value # None
  /\ ~LooksLikeObject(value)

\* poll_and_publish, "Prepare for batch": equipment_groups[equipment_key].append.
GroupAppend(groups, key, pd) ==
  IF \E i \in 1..Len(groups) : groups[i].key = key
    THEN [i \in 1..Len(groups) |->
            IF groups[i].key = key
              THEN [key |-> key, points |-> Append(groups[i].points, pd)]
              ELSE groups[i]]
    ELSE Append(groups, [key |-> key, points |-> <<pd>>])

HasEquipmentType(p) == equipmentKey(p)[2] # ""

\* "if site_id and equipment_type and equipment_id".
HasEquipment(p) ==
  equipmentKey(p)[1] # "" /\ equipmentKey(p)[2] # "" /\ equipmentKey(p)[3] # ""

WhileRunningForever(flag) == TRUE

\* run: the test of "while not shutdown_requested".
WhileRunning(flag) == ~flag

\* run: "while not shutdown_requested", the next iteration starts.
loop_enter(limit) ==
  /\ pc = "loop"
  /\ WhileRunning(shutdown_requested)
  /\ ticks < limit
  /\ ticks' = ticks + 1
  /\ drain_snapshot' = JobIds(pending_write_commands)
  /\ pc' = "pw_check"
  /\ UNCHANGED <<sinkVars, discoveryVars, hostVars>>
  /\ UNCHANGED <<shutdown_requested, mqtt_connected, pending_write_commands,
                 point_last_poll, poll_cycle, now, msgs, command, points, idx,
                 current_time, stats, equipment_groups, attempt, db_enabled,
                 enable_batch_publishing, db_last, write_results, tick_pubs, inflight,
                 write_log, write_replies, tick_reads, rd, first_seen, first_read>>

\* run: the flag is set, the loop ends; "Cleanup" stops the MQTT thread,
\* disconnects the client (the thread being stopped, no callback runs and
\* self.mqtt_connected stays as it was), closes the database connection and
\* returns 0, which main hands to sys.exit.
loop_exit ==
  /\ pc = "loop"
  /\ ~WhileRunning(shutdown_requested)
  /\ pc' = "stopped"
  /\ mqtt_client' = "disconnected"
  /\ db_conn' = "closed"
  /\ exit_code' = <<0>>
  /\ UNCHANGED <<sinkVars, discoveryVars, db_up, outages, caught>>
  /\ UNCHANGED <<shutdown_requested, mqtt_connected, pending_write_commands, point_last_poll, poll_cycle,
                 now, ticks, msgs, command, points, idx, current_time, stats,
                 equipment_groups, attempt, db_enabled, enable_batch_publishing, db_last,
                 write_results, tick_pubs, inflight, write_log, write_replies,
                 drain_snapshot, tick_reads, rd, first_seen, first_read>>

\* poll_and_publish up to the for loop: the points are loaded and the tick's
\* locals set; with no enabled point the cycle is skipped.
poll_start ==
  /\ pc = "poll"
  /\ points' = get_enabled_points
  /\ db_conn' = AfterQuery
  /\ IF points' = <<>>
       THEN /\ pc' = "sleep"
            /\ UNCHANGED <<idx, current_time, stats, equipment_groups, tick_pubs,
                           tick_reads>>
       ELSE /\ pc' = "point"
            /\ idx' = 1
            /\ current_time' = now
            /\ stats' = ZeroStats
            /\ equipment_groups' = <<>>
            /\ tick_pubs' = <<>>
            /\ tick_reads' = <<>>
  /\ UNCHANGED <<sinkVars, discoveryVars, db_up, outages, mqtt_client, exit_code, caught>>
  /\ UNCHANGED <<shutdown_requested, mqtt_connected, pending_write_commands,
                 point_last_poll, poll_cycle, now, ticks, msgs, command, attempt,
                 db_enabled, enable_batch_publishing, db_last, write_results, inflight,
                 write_log, write_replies, drain_snapshot, rd, first_seen, first_read>>

\* The for loop meets a point with no entry in point_last_poll: the entry is
\* set to next_minute - poll_interval and the point is skipped.
point_new ==
  /\ pc = "point"
  /\ idx <= Len(points)
  /\ LET p == points[idx]
     IN /\ p \notin DOMAIN point_last_poll
        /\ point_last_poll' =
             DictSet(point_last_poll, p, CeilTo(current_time, MinuteMs) - pollInterval(p))
        /\ first_seen' = DictSet(first_seen, p, current_time)
  /\ stats' = [stats EXCEPT !.skipped = @ + 1]
  /\ idx' = NextIndex(idx)
  /\ rd' = NoRead
  /\ UNCHANGED <<sinkVars, discoveryVars, hostVars>>
  /\ UNCHANGED <<shutdown_requested, mqtt_connected, pending_write_commands, poll_cycle,
                 pc, now, ticks, msgs, command, points, current_time, equipment_groups,
                 attempt, db_enabled, enable_batch_publishing, db_last, write_results,
                 tick_pubs, inflight, write_log, write_replies, drain_snapshot,
                 tick_reads, first_read>>

\* The for loop meets a point whose interval has not elapsed: skipped.
point_skip ==
  /\ pc = "point"
  /\ idx <= Len(points)
  /\ LET p == points[idx]
     IN /\ p \in DOMAIN point_last_poll
        /\ current_time - point_last_poll[p] < pollInterval(p)
  /\ stats' = [stats EXCEPT !.skipped = @ + 1]
  /\ idx' = NextIndex(idx)
  /\ rd' = NoRead
  /\ UNCHANGED <<sinkVars, discoveryVars, hostVars>>
  /\ UNCHANGED <<shutdown_requested, mqtt_connected, pending_write_commands,
                 point_last_poll, poll_cycle, pc, now, ticks, msgs, command, points,
                 current_time, equipment_groups, attempt, db_enabled,
                 enable_batch_publishing, db_last, write_results, tick_pubs, inflight,
                 write_log, write_replies, drain_snapshot, tick_reads, first_seen,
                 first_read>>

\* The for loop meets a due point: read_with_retry is called and sends the
\* first ReadProperty request.
point_read ==
  /\ pc = "point"
  /\ idx <= Len(points)
  /\ LET p == points[idx]
     IN /\ p \in DOMAIN point_last_poll
        /\ ~(current_time - point_last_poll[p] < pollInterval(p))
        /\ tick_reads' = Append(tick_reads, p)
        /\ inflight' = Append(inflight, [svc |-> "read", target |-> p])
        /\ rd' = [p |-> p, timeouts |-> <<AttemptTimeout(0)>>, silent |-> TRUE,
                  sleeps |-> 0, started |-> now, ended |-> now, done |-> FALSE,
                  value |-> None]
        /\ first_read' = IF p \in DOMAIN first_read THEN first_read
                         ELSE DictSet(first_read, p, now)
  /\ stats' = [stats EXCEPT !.total = @ + 1]
  /\ attempt' = 0
  /\ pc' = "read_wait"
  /\ UNCHANGED <<sinkVars, discoveryVars, hostVars>>
  /\ UNCHANGED <<shutdown_requested, mqtt_connected, pending_write_commands,
                 point_last_poll, poll_cycle, now, ticks, msgs, command, points, idx,
                 current_time, equipment_groups, db_enabled, enable_batch_publishing,
                 db_last, write_results, tick_pubs, write_log, write_replies,
                 drain_snapshot, first_seen>>

\* poll_and_publish after read_with_retry returned value for points[idx]: the
\* "if value is not None" block, or failed_reads += 1.
AfterRead(value) ==
  LET p == points[idx]
      published == publish_individual_topic(p, value)
  IN /\ point_last_poll' = LastPollAfterRead(point_last_poll, p, value, current_time)
     /\ IF value # None
          THEN /\ stats' = [stats EXCEPT !.success = @ + 1,
                                         !.individual = IF published THEN @ + 1 ELSE @]
               /\ tick_pubs' = IF published
                                 THEN Append(tick_pubs, [kind |-> "individual", point |-> p,
                                                         value |-> value,
                                                         key |-> <<>>, points |-> <<>>])
                                 ELSE tick_pubs
               /\ equipment_groups' =
                    IF HasEquipment(p)
                      THEN GroupAppend(equipment_groups, equipmentKey(p),
                                       [point |-> p, value |-> value])
                      ELSE equipment_groups
               \* "Update database", its except branch only logs
               /\ db_last' = IF DbAnswers THEN DictSet(db_last, p, current_time)
                                           ELSE db_last
               /\ db_conn' = AfterQuery
          ELSE /\ stats' = [stats EXCEPT !.failed = @ + 1]
               /\ UNCHANGED <<tick_pubs, equipment_groups, db_last, db_conn>>
     /\ idx' = NextIndex(idx)
     /\ pc' = "point"

AfterRaiseStop == "stopped"

\* run: "except Exception" logs the error and the iteration goes on to
\* "await asyncio.sleep(5)".
AfterRaise == "sleep"

\* The for loop meets a due point and read_with_retry raises before its retry
\* loop (Address or ObjectIdentifier rejects the row's ipAddress, port or
\* objectType): nothing in poll_and_publish catches it, the exception ends the
\* tick and run logs it and goes to sleep.
point_raise ==
  /\ pc = "point"
  /\ idx <= Len(points)
  /\ LET p == points[idx]
     IN /\ p \in DOMAIN point_last_poll
        /\ ~(current_time - point_last_poll[p] < pollInterval(p))
        /\ tick_reads' = Append(tick_reads, p)
  /\ stats' = [stats EXCEPT !.total = @ + 1]
  /\ rd' = NoRead
  /\ caught' = caught + 1
  /\ pc' = AfterRaise
  /\ UNCHANGED <<sinkVars, discoveryVars, db_up, db_conn, outages, mqtt_client, exit_code>>
  /\ UNCHANGED <<shutdown_requested, mqtt_connected, pending_write_commands,
                 point_last_poll, poll_cycle, now, ticks, msgs, command, points, idx,
                 current_time, equipment_groups, attempt, db_enabled,
                 enable_batch_publishing, db_last, write_results, tick_pubs, inflight,
                 write_log, write_replies, drain_snapshot, first_seen, first_read>>

\* The await of one ReadProperty attempt ends: the first attempt with one of
\* First, a retry with one of Retry, a "value" reply carrying one of Values.
\* asyncio.wait_for gives up after the attempt's timeout; an answer or an
\* exception comes at once or, with late, also only as the timeout is about to
\* expire.
read_reply(First, Retry, late, Values) ==
  /\ pc = "read_wait"
  /\ \E reply \in IF attempt = 0 THEN First ELSE Retry :
     \E elapsed \in IF reply = "timeout" THEN {AttemptTimeout(attempt)}
                    ELSE IF late THEN {0, AttemptTimeout(attempt)} ELSE {0} :
     \E bv \in IF reply = "value" THEN Values ELSE {RealValue} :
       LET seen == [rd EXCEPT !.silent = @ /\ reply = "timeout", !.ended = now + elapsed]
       IN /\ now' = now + elapsed
          /\ IF reply = "value"
               \* response.propertyValue goes through extract_value: return value
               THEN /\ rd' = [seen EXCEPT !.done = TRUE, !.value = extract_value(bv)]
                    /\ inflight' = SubSeq(inflight, 1, Len(inflight) - 1)
                    /\ AfterRead(extract_value(bv))
                    /\ UNCHANGED attempt
             ELSE IF reply = "undecodable"
               \* extract_value gives None: return value
               THEN /\ rd' = [seen EXCEPT !.done = TRUE]
                    /\ inflight' = SubSeq(inflight, 1, Len(inflight) - 1)
                    /\ AfterRead(None)
                    /\ UNCHANGED attempt
             ELSE IF IsLastAttempt(attempt)
               \* the loop is exhausted: return None
               THEN /\ rd' = [seen EXCEPT !.done = TRUE]
                    /\ inflight' = SubSeq(inflight, 1, Len(inflight) - 1)
                    /\ AfterRead(None)
                    /\ UNCHANGED attempt
             ELSE IF reply = "noPropertyValue"
               \* neither return nor except: the next attempt follows at once
               THEN /\ rd' = [seen EXCEPT !.timeouts = Append(@, AttemptTimeout(attempt + 1))]
                    /\ attempt' = attempt + 1
                    /\ UNCHANGED <<inflight, point_last_poll, stats, tick_pubs,
                                   equipment_groups, db_last, db_conn, idx, pc>>
             \* TimeoutError or Exception: sleep 0.5 s, then continue
             ELSE /\ rd' = seen
                  /\ inflight' = SubSeq(inflight, 1, Len(inflight) - 1)
                  /\ pc' = "retry_sleep"
                  /\ UNCHANGED <<attempt, point_last_poll, stats, tick_pubs,
                                 equipment_groups, db_last, db_conn, idx>>
  /\ UNCHANGED <<sinkVars, discoveryVars, db_up, outages, mqtt_client, exit_code, caught>>
  /\ UNCHANGED <<shutdown_requested, mqtt_connected, pending_write_commands, poll_cycle,
                 ticks, msgs, command, points, current_time, db_enabled,
                 enable_batch_publishing, write_results, write_log, write_replies,
                 drain_snapshot, tick_reads, first_seen, first_read>>

\* read_with_retry: asyncio.sleep(0.5) ends and the next attempt is sent.
retry_sleep ==
  /\ pc = "retry_sleep"
  /\ now' = now + RetrySleepMs
  /\ attempt' = attempt + 1
  /\ rd' = [rd EXCEPT !.sleeps = @ + 1, !.ended = now + RetrySleepMs,
                      !.timeouts = Append(@, AttemptTimeout(attempt + 1))]
  /\ inflight' = Append(inflight, [svc |-> "read", target |-> rd.p])
  /\ pc' = "read_wait"
  /\ UNCHANGED <<sinkVars, discoveryVars, hostVars>>
  /\ UNCHANGED <<shutdown_requested, mqtt_connected, pending_write_commands,
                 point_last_poll, poll_cycle, ticks, msgs, command, points, idx,
                 current_time, stats, equipment_groups, db_enabled,
                 enable_batch_publishing, db_last, write_results, tick_pubs, write_log,
                 write_replies, drain_snapshot, tick_reads, first_seen, first_read>>

\* poll_and_publish after the for loop: the equipment batches are published
\* (only if enabled) and the cycle is counted if anything was polled.
BatchPubs(groups) ==
  [i \in 1..Len(groups) |->
     [kind |-> "batch", point |-> 0, value |-> None, key |-> groups[i].key,
      points |-> groups[i].points]]

PublishBatchesFirst(pubs, groups) == BatchPubs(groups) \o pubs

\* poll_and_publish: the batches go out after the for loop, so after every
\* publication the loop made.
PublishBatches(pubs, groups) == pubs \o BatchPubs(groups)

poll_end ==
  /\ pc = "point"
  /\ idx > Len(points)
  /\ IF enable_batch_publishing
       THEN /\ tick_pubs' = PublishBatches(tick_pubs, equipment_groups)
            /\ stats' = [stats EXCEPT !.batch = Len(equipment_groups)]
       ELSE UNCHANGED <<tick_pubs, stats>>
  /\ poll_cycle' = IF stats.total > 0 THEN poll_cycle + 1 ELSE poll_cycle
  /\ pc' = "sleep"
  /\ rd' = NoRead
  /\ UNCHANGED <<sinkVars, discoveryVars, hostVars>>
  /\ UNCHANGED <<shutdown_requested, mqtt_connected, pending_write_commands,
                 point_last_poll, now, ticks, msgs, command, points, idx, current_time,
                 equipment_groups, attempt, db_enabled, enable_batch_publishing, db_last,
                 write_results, inflight, write_log, write_replies, drain_snapshot,
                 tick_reads, first_seen, first_read>>

\* run: "await asyncio.sleep(5)".
loop_sleep ==
  /\ pc = "sleep"
  /\ now' = now + LoopSleepMs
  /\ pc' = "loop"
  /\ UNCHANGED <<sinkVars, discoveryVars, hostVars>>
  /\ UNCHANGED <<shutdown_requested, mqtt_connected, pending_write_commands,
                 point_last_poll, poll_cycle, ticks, msgs, command, points, idx,
                 current_time, stats, equipment_groups, attempt, db_enabled,
                 enable_batch_publishing, db_last, write_results, tick_pubs, inflight,
                 write_log, write_replies, drain_snapshot, tick_reads, rd, first_seen,
                 first_read>>

Init == InitWith({PointIds}, StartTimes)

Next ==
  \/ signal_handler(DuringSleep)
  \/ on_mqtt_message(MaxMsgs, CommandShapes)
  \/ on_mqtt_message_invalid
  \/ loop_enter(MaxTicks)
  \/ loop_exit
  \/ pw_check
  \/ pw_pop
  \/ write_reply
  \/ poll_start
  \/ point_new
  \/ point_skip
  \/ point_read
  \/ read_reply(EngineReadReplies, {"timeout"}, FALSE, {RealValue})
  \/ retry_sleep
  \/ poll_end
  \/ loop_sleep

\* The engine with every point enabled: the MQTT thread queues write commands
\* while the main loop drains the queue and polls.
Spec == Init /\ [][Next]_vars

\* The engine with no enabled point: the MQTT thread and the write executor.
WriteInit == InitWith({{}}, StartTimes)

WriteNext ==
  \/ signal_handler(DuringSleep)
  \/ on_mqtt_message(WriteMsgs, CommandShapes)
  \/ on_mqtt_message_invalid
  \/ loop_enter(WriteTicks)
  \/ loop_exit
  \/ pw_check
  \/ pw_pop
  \/ write_reply
  \/ poll_start
  \/ loop_sleep

WriteSpec == WriteInit /\ [][WriteNext]_vars

\* The write executor with commands of every kind.
CommandNext ==
  \/ on_mqtt_message(CommandMsgs, CommandKinds)
  \/ loop_enter(CommandTicks)
  \/ pw_check
  \/ pw_pop
  \/ write_reply
  \/ poll_start
  \/ loop_sleep

CommandSpec == WriteInit /\ [][CommandNext]_vars

\* The engine with no write command: the scheduler and the poller, with
\* points being enabled, the broker connection coming and going, and signals.
PollInit == InitWith({{1}, PointIds}, StartTimes)

PollNext ==
  \/ signal_handler(DuringSleep)
  \/ on_mqtt_connect
  \/ on_mqtt_disconnect
  \/ DbEnablePoint
  \/ loop_enter(PollTicks)
  \/ loop_exit
  \/ pw_check
  \/ poll_start
  \/ point_new
  \/ point_skip
  \/ point_read
  \/ read_reply(EngineReadReplies, {"timeout"}, FALSE, {RealValue})
  \/ retry_sleep
  \/ poll_end
  \/ loop_sleep

PollSpec == PollInit /\ [][PollNext]_vars

\* One enabled point, each attempt of each read answered by any of ReadReplies,
\* at once or late.
ReadInit == InitWith({{1}}, {112000, 117000})

ReadNext ==
  \/ loop_enter(ReadTicks)
  \/ pw_check
  \/ poll_start
  \/ point_new
  \/ point_skip
  \/ point_read
  \/ read_reply(ReadReplies, ReadReplies, TRUE, {RealValue})
  \/ retry_sleep
  \/ poll_end
  \/ loop_sleep

ReadSpec == ReadInit /\ [][ReadNext]_vars

\* One enabled point with equipment tags, a "value" reply carrying any of
\* BacnetValues.
ValueInit == InitWith({{1}}, StartTimes)

ValueNext ==
  \/ loop_enter(ValueTicks)
  \/ pw_check
  \/ poll_start
  \/ point_new
  \/ point_skip
  \/ point_read
  \/ read_reply(EngineReadReplies, {"timeout"}, FALSE, BacnetValues)
  \/ retry_sleep
  \/ poll_end
  \/ loop_sleep

ValueSpec == ValueInit /\ [][ValueNext]_vars

\* The poller with rows whose handling may raise.
FaultInit == InitWith({PointIds}, StartTimes)

FaultNext ==
  \/ loop_enter(FaultTicks)
  \/ pw_check
  \/ poll_start
  \/ point_new
  \/ point_skip
  \/ point_read
  \/ point_raise
  \/ read_reply(EngineReadReplies, {"timeout"}, FALSE, {RealValue})
  \/ retry_sleep
  \/ poll_end
  \/ loop_sleep

FaultSpec == FaultInit /\ [][FaultNext]_vars

\* Where the main loop may stand when a signal arrives.
AnyTime == {"loop", "pw_check", "pw_pop", "write_wait", "poll", "point", "read_wait",
            "retry_sleep", "sleep"}

\* The engine from startup to exit: one enabled point, write commands, rows
\* whose handling may raise, and a signal arriving at any moment.
LifecycleInit == InitWith({{1}}, StartTimes)

LifecycleNext ==
  \/ signal_handler(AnyTime)
  \/ on_mqtt_message(LifeMsgs, CommandShapes)
  \/ loop_enter(LifeTicks)
  \/ loop_exit
  \/ pw_check
  \/ pw_pop
  \/ write_reply
  \/ poll_start
  \/ point_new
  \/ point_skip
  \/ point_read
  \/ point_raise
  \/ read_reply(EngineReadReplies, {"timeout"}, FALSE, {RealValue})
  \/ retry_sleep
  \/ poll_end
  \/ loop_sleep

LifecycleSpec == LifecycleInit /\ [][LifecycleNext]_vars

\* The steps of the main loop: the event loop runs the coroutine of run
\* whenever it can go on, and every await in it ends (a reply, a timeout or
\* the end of a sleep).
MainLoopStep ==
  \/ loop_enter(LifeTicks)
  \/ loop_exit
  \/ pw_check
  \/ pw_pop
  \/ write_reply
  \/ poll_start
  \/ point_new
  \/ point_skip
  \/ point_read
  \/ read_reply(EngineReadReplies, {"timeout"}, FALSE, {RealValue})
  \/ retry_sleep
  \/ poll_end
  \/ loop_sleep

LifecycleLiveSpec == LifecycleInit /\ [][LifecycleNext]_vars /\ WF_vars(MainLoopStep)

\* The poller with a configuration store that stops answering and comes back.
DbInit == InitWith({{1}}, StartTimes)

DbNext ==
  \/ db_down(MaxOutages)
  \/ db_restore
  \/ loop_enter(DbTicks)
  \/ pw_check
  \/ poll_start
  \/ point_new
  \/ point_skip
  \/ point_read
  \/ read_reply(EngineReadReplies, {"timeout"}, FALSE, {RealValue})
  \/ retry_sleep
  \/ poll_end
  \/ loop_sleep

\* The steps of the main loop, as in MainLoopStep.
DbLoopStep ==
  \/ loop_enter(DbTicks)
  \/ pw_check
  \/ poll_start
  \/ point_new
  \/ point_skip
  \/ point_read
  \/ read_reply(EngineReadReplies, {"timeout"}, FALSE, {RealValue})
  \/ retry_sleep
  \/ poll_end
  \/ loop_sleep

DbSpec == DbInit /\ [][DbNext]_vars /\ WF_vars(DbLoopStep)

\* ---- a client that keeps publishing its write command ----

\* The most commands waiting in the queue at a time.
MaxQueued == 1

\* The main-loop iterations followed.
StarveTicks == 2

\* The jobId the client puts into each of its commands.
RepeatedJobId == 1

\* The device answers every WriteProperty request at once.
PromptReplies == WriteReplies \ {"timeout"}

\* A history that lists each of its entries once.
Noted(history, x) == IF x \in Range(history) THEN history ELSE Append(history, x)

\* on_mqtt_message for a client that publishes its command again and again:
\* the callback appends every delivery, at any position of the main loop, also
\* during the await of a write. msgs counts the jobIds received.
on_mqtt_message_repeated(limit) ==
  /\ pc # "stopped"
  /\ Len(pending_write_commands) < limit
  /\ msgs' = RepeatedJobId
  /\ \E shape \in CommandShapes :
       pending_write_commands' =
         Append(pending_write_commands, ParsedCommand(shape, RepeatedJobId))
  /\ UNCHANGED <<sinkVars, discoveryVars, hostVars>>
  /\ UNCHANGED <<shutdown_requested, mqtt_connected, point_last_poll, poll_cycle, pc, now,
                 ticks, command, points, idx, current_time, stats, equipment_groups,
                 attempt, db_enabled, enable_batch_publishing, db_last, write_results,
                 tick_pubs, inflight, write_log, write_replies, drain_snapshot,
                 tick_reads, rd, first_seen, first_read>>

\* process_write_commands pops the head, as pw_pop; the histories list a
\* request and a result that were recorded before only once.
pw_pop_repeated ==
  /\ pc = "pw_pop"
  /\ LET d == Dequeue(pending_write_commands)
         c == d.command
     IN /\ pending_write_commands' = d.rest
        /\ command' = c
        /\ IF write_value(c).tag = "EncodeError"
             THEN /\ write_results' = Noted(write_results, WriteResult(c, EncodeFailure))
                  /\ write_replies' = DictSet(write_replies, c.jobId, "encode")
                  /\ pc' = AfterExecute
                  /\ UNCHANGED <<inflight, write_log>>
             ELSE /\ inflight' = Append(inflight, [svc |-> "write", target |-> c.jobId,
                                                  value |-> write_value(c)])
                  /\ write_log' = Noted(write_log, c.jobId)
                  /\ pc' = "write_wait"
                  /\ UNCHANGED <<write_results, write_replies>>
  /\ UNCHANGED <<sinkVars, discoveryVars, hostVars>>
  /\ UNCHANGED <<shutdown_requested, mqtt_connected, point_last_poll, poll_cycle, now,
                 ticks, msgs, points, idx, current_time, stats, equipment_groups, attempt,
                 db_enabled, enable_batch_publishing, db_last, tick_pubs, drain_snapshot,
                 tick_reads, rd, first_seen, first_read>>

\* The await of the WriteProperty request ends with the device's answer, as
\* write_reply.
write_reply_repeated ==
  /\ pc = "write_wait"
  /\ \E reply \in PromptReplies :
       /\ write_results' =
            Noted(write_results, WriteResult(command, write_outcome(reply)))
       /\ write_replies' = DictSet(write_replies, command.jobId, reply)
  /\ inflight' = SubSeq(inflight, 1, Len(inflight) - 1)
  /\ pc' = AfterExecute
  /\ UNCHANGED <<sinkVars, discoveryVars, hostVars>>
  /\ UNCHANGED <<shutdown_requested, mqtt_connected, pending_write_commands,
                 point_last_poll, poll_cycle, now, ticks, msgs, command, points, idx,
                 current_time, stats, equipment_groups, attempt, db_enabled,
                 enable_batch_publishing, db_last, tick_pubs, write_log, drain_snapshot,
                 tick_reads, rd, first_seen, first_read>>

StarveNext ==
  \/ on_mqtt_message_repeated(MaxQueued)
  \/ loop_enter(StarveTicks)
  \/ pw_check
  \/ pw_pop_repeated
  \/ write_reply_repeated
  \/ poll_start
  \/ loop_sleep

\* The statements of the main loop: each await returns, the device answering
\* every write.
StarveLoopStep ==
  \/ loop_enter(StarveTicks)
  \/ pw_check
  \/ pw_pop_repeated
  \/ write_reply_repeated
  \/ poll_start
  \/ loop_sleep

\* The main loop keeps running; nothing is assumed of the client.
StarveSpec == WriteInit /\ [][StarveNext]_vars /\ WF_vars(StarveLoopStep)

(* ----------------------------- sink bridge ---------------------------- *)

\* "if len(seen_messages) > 1000" and "for _ in range(100)".
seen_limit == 1000
evict_count == 100

\* payload.get('haystackName') of the point whose stream is followed.
HaystackName == "site.ahu.1.sensor.temp"

\* payload.get('timestamp'): the ISO text 2024-03-01T10:00:00 plus sec seconds,
\* followed by the fraction .frac and the offset.
Timestamp(sec, frac) == [sec |-> sec, frac |-> frac]

\* timestamp[:19]: the text up to the seconds; the fraction and offset are cut.
TruncateToSecond(ts) == ts.sec

\* dedup_key = (haystack_name, timestamp_second).
DedupKey(name, ts) == <<name, TruncateToSecond(ts)>>

\* "dedup_key in seen_messages".
InSeen(seen, key) == \E i \in 1..Len(seen) : seen[i] = key

OverflowsAtLimit(n) == n >= seen_limit

\* "if len(seen_messages) > 1000".
Overflows(n) == n > seen_limit

EvictNewest(seen) == SubSeq(seen, 1, Len(seen) - evict_count)

\* "Remove oldest entries (simple FIFO)": the first evict_count keys of the dict.
Evict(seen) == SubSeq(seen, evict_count + 1, Len(seen))

\* "Mark as seen (limit cache size to last 1000 messages)".
MarkSeen(seen, key) ==
  LET marked == Append(seen, key)
  IN IF Overflows(Len(marked)) THEN Evict(marked) ELSE marked

\* on_message: stats['messages_received'] += 1 on entry, and
\* stats['messages_written'] += 1 after insert_sensor_reading returned, which
\* it does whether the INSERT succeeded or raised.
CountedAfterInsert == {"messages_received", "messages_written"}

\* The messages the stream may bring next: one with a key not seen in the
\* stream before (the next second, fraction .123), or one that repeats the
\* oldest or the newest key of the stream later in the same second (.987).
NextMessages(limit) ==
  { Timestamp(stream_keys + 1, 123) : x \in IF stream_keys < limit THEN {1} ELSE {} }
    \cup { Timestamp(sec, 987) : sec \in IF stream_keys > 0 THEN {1, stream_keys} ELSE {} }

\* on_message for a JSON payload with haystackName and timestamp: dropped when
\* its key is in the cache, else marked seen and inserted (insert_sensor_reading
\* with the database up; a failed INSERT leaves no row).
on_message(limit) ==
  /\ \E ts \in NextMessages(limit) :
       LET key == DedupKey(HaystackName, ts)
       IN /\ stream_keys' = IF ts.sec > stream_keys THEN stream_keys + 1 ELSE stream_keys
          /\ IF InSeen(seen_messages, key)
               THEN /\ sink_last' = [sec |-> ts.sec, frac |-> ts.frac, outcome |-> "dropped"]
                    /\ sink_counted' = {"messages_received"}
                    /\ UNCHANGED <<seen_messages, sensor_readings>>
               ELSE /\ seen_messages' = MarkSeen(seen_messages, key)
                    /\ sensor_readings' =
                         Append(sensor_readings, [haystack_name |-> HaystackName, time |-> ts])
                    /\ sink_last' = [sec |-> ts.sec, frac |-> ts.frac, outcome |-> "inserted"]
                    /\ sink_counted' = CountedAfterInsert
  /\ UNCHANGED utcnow
  /\ UNCHANGED <<engineVars, discoveryVars>>

\* on_message for a payload whose key is not in the cache, when the INSERT
\* raises: the key is already marked seen; insert_sensor_reading logs, calls
\* connect_db (which succeeds or fails, and does not raise) and returns without
\* executing the INSERT again; on_message goes on as after an insert.
on_message_insert_error(limit) ==
  /\ \E ts \in NextMessages(limit), reconnected \in BOOLEAN :
       LET key == DedupKey(HaystackName, ts)
       IN /\ ~InSeen(seen_messages, key)
          /\ stream_keys' = IF ts.sec > stream_keys THEN stream_keys + 1 ELSE stream_keys
          /\ seen_messages' = MarkSeen(seen_messages, key)
          /\ sink_last' = [sec |-> ts.sec, frac |-> ts.frac,
                           outcome |-> IF reconnected THEN "reconnected"
                                                      ELSE "reconnect_failed"]
  /\ sink_counted' = CountedAfterInsert
  /\ UNCHANGED <<sensor_readings, utcnow>>
  /\ UNCHANGED <<engineVars, discoveryVars>>

\* on_message for a payload json.loads rejects: counted as an error, no row.
on_message_invalid ==
  /\ sink_last' = [sec |-> 0, frac |-> 0, outcome |-> "error"]
  /\ sink_counted' = {"messages_received", "errors"}
  /\ UNCHANGED <<seen_messages, sensor_readings, stream_keys, utcnow>>
  /\ UNCHANGED <<engineVars, discoveryVars>>

\* The sink bridge alone, the engine idle.
SinkSpecInit == InitWith({{}}, {120000}) /\ enable_batch_publishing = FALSE

SinkNext ==
  \/ on_message(MaxStreamKeys)
  \/ on_message_invalid

SinkSpec == SinkSpecInit /\ [][SinkNext]_vars

\* The sink bridge with a time-series store whose INSERT may fail.
SinkFaultNext ==
  \/ on_message(FaultStreamKeys)
  \/ on_message_insert_error(FaultStreamKeys)
  \/ on_message_invalid

SinkFaultSpec == SinkSpecInit /\ [][SinkFaultNext]_vars

\* ---- messages of several publishers and messages without a timestamp ----

\* The latest second the sink bridge's clock reaches.
MaxClock == 2

\* The sub-second parts datetime.utcnow() may return.
ClockFractions == {0, 500}

\* payload.get('timestamp') of a payload that has no timestamp.
NoTimestamp == [sec |-> -1, frac |-> -1]

\* timestamp_second of a payload that has no timestamp: None.
NoSecond == -1

\* The timestamp of the engine's tick: poll_and_publish takes it once and
\* puts it into the payload of every point it publishes in the tick.
TickTimestamp == Timestamp(1, 123)

\* The payloads that arrive: of two points (told apart by objectInstance),
\* with no haystackName or the same one, published in one tick or by a
\* publisher that sends no timestamp.
Payloads ==
  [ objectInstance : PointIds,
    haystackName : {None, HaystackName},
    timestamp : {NoTimestamp, TickTimestamp} ]

\* dt: the parsed timestamp, or the current UTC time when there is none.
StampedTime(timestamp, clock, frac) ==
  IF timestamp = NoTimestamp THEN Timestamp(clock, frac) ELSE timestamp

\* timestamp_second: timestamp[:19] if timestamp else timestamp.
TimestampSecond(timestamp) ==
  IF timestamp = NoTimestamp THEN NoSecond ELSE TruncateToSecond(timestamp)

\* dedup_key = (haystack_name, timestamp_second)
PayloadKey(payload) == <<payload.haystackName, TimestampSecond(payload.timestamp)>>

\* on_message for a payload of Payloads whose INSERT succeeds.
on_message_payload ==
  /\ \E payload \in Payloads, frac \in ClockFractions :
       LET dt == StampedTime(payload.timestamp, utcnow, frac)
           key == PayloadKey(payload)
       IN IF InSeen(seen_messages, key)
            THEN /\ sink_last' = [sec |-> dt.sec, frac |-> dt.frac, outcome |-> "dropped",
                                  payload |-> payload]
                 /\ sink_counted' = {"messages_received"}
                 /\ UNCHANGED <<seen_messages, sensor_readings>>
            ELSE /\ seen_messages' = MarkSeen(seen_messages, key)
                 /\ sensor_readings' =
                      Append(sensor_readings,
                             [haystack_name |-> payload.haystackName, time |-> dt,
                              object_instance |-> payload.objectInstance])
                 /\ sink_last' = [sec |-> dt.sec, frac |-> dt.frac, outcome |-> "inserted",
                                  payload |-> payload]
                 /\ sink_counted' = CountedAfterInsert
  /\ UNCHANGED <<stream_keys, utcnow>>
  /\ UNCHANGED <<engineVars, discoveryVars>>

\* A second passes on the sink bridge's clock.
clock_tick(limit) ==
  /\ utcnow < limit
  /\ utcnow' = utcnow + 1
  /\ UNCHANGED <<seen_messages, sensor_readings, stream_keys, sink_last, sink_counted>>
  /\ UNCHANGED <<engineVars, discoveryVars>>

PayloadNext ==
  \/ on_message_payload
  \/ clock_tick(MaxClock)

PayloadSpec == SinkSpecInit /\ [][PayloadNext]_vars

(* --------------------------- discovery worker ------------------------- *)

\* f"Device_{device_id}".
DefaultDeviceName(d) == IF d = 3001 THEN "Device_3001" ELSE "Device_3002"

\* The port save_to_database inserts for a device.
DevicePort == 47808

\* The values the INSERT gives a Device row: "port" 47808, "enabled" True.
NewDevice(id, d, name) ==
  [id |-> id, deviceId |-> d, deviceName |-> name, port |-> DevicePort, enabled |-> TRUE]

\* The columns of a Point row the user sets in the web UI, as the INSERT
\* leaves them: "enabled" True, the others at the defaults of the schema.
DefaultPointConfig ==
  [enabled |-> TRUE, mqttPublish |-> FALSE, mqttTopic |-> None, qos |-> 1,
   pollInterval |-> 60, siteId |-> None, equipmentType |-> None, equipmentId |-> None]

\* The values the INSERT gives a Point row: "isWritable" is
\* 'priorityArray' in point.
NewPoint(id, dbid, pt) ==
  [id |-> id, deviceId |-> dbid, objectType |-> pt.object_type,
   objectInstance |-> pt.object_instance, isWritable |-> pt.priorityArray,
   config |-> DefaultPointConfig]

InsertDevice(table, d, name) ==
  table \cup {NewDevice(Cardinality(table) + 1, d, name)}

\* INSERT INTO "Device" ... ON CONFLICT ("deviceId") DO UPDATE. A table is the
\* set of its rows.
UpsertDevice(table, d, name) ==
  IF \E r \in table : r.deviceId = d
    THEN { IF r.deviceId = d THEN [r EXCEPT !.deviceName = name] ELSE r : r \in table }
    ELSE table \cup {NewDevice(Cardinality(table) + 1, d, name)}

\* RETURNING id.
DeviceDbId(table, d) == (CHOOSE r \in table : r.deviceId = d).id

\* The row of table with the key of pt is r.
SamePoint(r, dbid, pt) ==
  /\ r.deviceId = dbid
  /\ r.objectType = pt.object_type
  /\ r.objectInstance = pt.object_instance

\* DELETE and INSERT in place of the upsert: the row is replaced by a new one.
ReplacePoint(table, dbid, pt) ==
  LET others == { r \in table : ~SamePoint(r, dbid, pt) }
  IN others \cup {NewPoint(Cardinality(others) + 1, dbid, pt)}

\* INSERT INTO "Point" ... ON CONFLICT ("deviceId", "objectType", "objectInstance")
\* DO UPDATE SET "pointName", description, units, "lastValue", "lastPollTime",
\* "updatedAt": none of them a column of the model's rows.
UpsertPoint(table, dbid, pt) ==
  IF \E r \in table : SamePoint(r, dbid, pt)
    THEN table
    ELSE table \cup {NewPoint(Cardinality(table) + 1, dbid, pt)}

\* UPDATE "DiscoveryJob" SET status = 'error', "errorMessage" = ...
ErrorUpdate(js, j, msg) == [js EXCEPT ![j].status = "error", ![j].errorMessage = msg]

ClaimStatusPending == "pending"

\* job_processor: WHERE status = 'running'.
ClaimStatus == "running"

\* The API starts a job the user requested: pending -> running. The worker
\* sees the table only in its SELECT, so the update is delivered before a poll.
api_start_job ==
  /\ dpc = "poll"
  /\ \E j \in DiscoveryJobs :
       /\ jobs[j].status = "pending"
       /\ \A k \in DiscoveryJobs : k < j => jobs[k].status # "pending"
       /\ jobs' = [jobs EXCEPT ![j].status = "running"]
  /\ UNCHANGED <<device_table, point_table, dpc, job, found_devices, all_points,
                 tasks, txn, faults, job_log>>
  /\ UNCHANGED <<engineVars, sinkVars>>

\* poll_and_process_jobs: the SELECT of the oldest running job, or the database
\* cannot be reached ("Error in job processor").
poll_jobs ==
  /\ dpc = "poll"
  /\ \/ /\ faults < MaxFaults
        /\ faults' = faults + 1
        /\ dpc' = "sleep"
        /\ UNCHANGED job
     \/ LET running == { j \in DiscoveryJobs : jobs[j].status = ClaimStatus }
        IN /\ IF running = {}
                THEN dpc' = "sleep" /\ UNCHANGED job
                ELSE /\ job' = CHOOSE j \in running : \A k \in running : j <= k
                     /\ dpc' = "run"
           /\ UNCHANGED faults
  /\ UNCHANGED <<jobs, device_table, point_table, found_devices, all_points, tasks,
                 txn, job_log>>
  /\ UNCHANGED <<engineVars, sinkVars>>

\* run_discovery up to the Who-Is of discovery_main: the connection fails and
\* run_discovery returns; or discovery_main raises (the address does not
\* parse, the socket cannot be bound) and the job is updated as error; or the
\* Who-Is is out and discovery_main sleeps for the job's timeout.
run_discovery ==
  /\ dpc = "run"
  /\ \/ /\ faults < MaxFaults
        /\ faults' = faults + 1
        /\ dpc' = "sleep"
        /\ UNCHANGED jobs
     \/ /\ faults < MaxFaults
        /\ faults' = faults + 1
        /\ jobs' = ErrorUpdate(jobs, job, "Discovery failed")
        /\ dpc' = "sleep"
     \/ /\ dpc' = "discover"
        /\ UNCHANGED <<jobs, faults>>
  /\ UNCHANGED <<device_table, point_table, job, found_devices, all_points, tasks,
                 txn, job_log>>
  /\ UNCHANGED <<engineVars, sinkVars>>

\* do_IAmRequest: an I-Am arrives while discovery_main sleeps; the device is
\* recorded and the handler goes on to read its objects.
do_IAmRequest ==
  /\ dpc = "discover"
  /\ Len(found_devices) < MaxIAm
  /\ \E d \in NetDevices :
       /\ found_devices' = Append(found_devices, d)
       /\ tasks' = tasks (+) SetToBag({[device |-> d, next |-> 0]})
  /\ UNCHANGED <<jobs, device_table, point_table, dpc, job, all_points, txn, faults,
                 job_log>>
  /\ UNCHANGED <<engineVars, sinkVars>>

\* read_device_objects: "if str(obj_id[0]) == 'device': continue"; the index of
\* the next object of list after k that is read.
RECURSIVE NextObject(_, _)
NextObject(list, k) ==
  IF k + 1 > Len(list) THEN k + 1
  ELSE IF list[k + 1].type = "device" THEN NextObject(list, k + 1)
  ELSE k + 1

\* The object types of the devices that have the property priorityArray.
HasPriorityArray(type) == type \in {"analog-output", "analog-value", "binary-output", "binary-value"}

\* The ReadProperty of an object's property is answered with a value.
Answered == {TRUE}

\* read_property_value returns None on any error: the read of a property may
\* also time out or be refused.
AnsweredOrNot == {TRUE, FALSE}

\* One handler gets the answers it awaits: the objectList of its device (or
\* none, and the handler returns), or the properties of the next object, which
\* read_object_properties appends to all_points.
read_device_objects(Answers) ==
  /\ dpc = "discover"
  /\ \E t \in BagToSet(tasks), answered \in Answers :
       LET d == t.device
           k == t.next
           list == objectList(d)
           returned == tasks (-) SetToBag({t})
           after(n) == IF NextObject(list, n) > Len(list) THEN returned
                       ELSE returned (+) SetToBag({[t EXCEPT !.next = NextObject(list, n)]})
       IN IF k = 0
            THEN /\ tasks' \in {after(0), returned}
                 /\ UNCHANGED all_points
            ELSE /\ all_points' =
                      Append(all_points,
                             [device_id |-> d, device_name |-> deviceName(d),
                              object_type |-> list[k].type,
                              object_instance |-> list[k].instance,
                              priorityArray |-> HasPriorityArray(list[k].type) /\ answered])
                 /\ tasks' = after(k)
  /\ UNCHANGED <<jobs, device_table, point_table, dpc, job, found_devices, txn, faults,
                 job_log>>
  /\ UNCHANGED <<engineVars, sinkVars>>

\* discovery_main after asyncio.sleep(timeout): save_to_database is called with
\* what has been found so far; it runs to its end without awaiting, so the
\* handlers still reading get no further.
discovery_timeout ==
  /\ dpc = "discover"
  /\ dpc' = "save"
  /\ txn' = [NoTxn EXCEPT !.devices = device_table, !.points = point_table, !.next = 1]
  /\ tasks' = EmptyBag
  /\ UNCHANGED <<jobs, device_table, point_table, job, found_devices, all_points,
                 faults, job_log>>
  /\ UNCHANGED <<engineVars, sinkVars>>

\* save_to_database: the next device of "for device_address, device_id in
\* devices" is upserted; its points are device_points[device_id].
save_device ==
  /\ dpc = "save"
  /\ txn.todo = <<>>
  /\ txn.next <= Len(found_devices)
  /\ LET d == found_devices[txn.next]
         Mine(pt) == pt.device_id = d
         mine == SelectSeq(all_points, Mine)
         name == IF mine # <<>> THEN mine[1].device_name ELSE DefaultDeviceName(d)
     IN \E saved \in {UpsertDevice(txn.devices, d, name)} :
          txn' = [txn EXCEPT !.devices = saved,
                             !.db_device_id = DeviceDbId(saved, d),
                             !.todo = mine,
                             !.next = @ + 1,
                             !.devices_saved = @ + 1]
  /\ UNCHANGED <<jobs, device_table, point_table, dpc, job, found_devices, all_points,
                 tasks, faults, job_log>>
  /\ UNCHANGED <<engineVars, sinkVars>>

\* save_to_database: the next point of "for point in
\* device_points[device_id]" is upserted.
save_point ==
  /\ dpc = "save"
  /\ txn.todo # <<>>
  /\ txn' = [txn EXCEPT !.points = UpsertPoint(txn.points, txn.db_device_id, Head(txn.todo)),
                        !.todo = Tail(@),
                        !.points_saved = @ + 1]
  /\ UNCHANGED <<jobs, device_table, point_table, dpc, job, found_devices, all_points,
                 tasks, faults, job_log>>
  /\ UNCHANGED <<engineVars, sinkVars>>

\* save_to_database: the UPDATE of the job to complete with the two counters,
\* and conn.commit().
save_commit ==
  /\ dpc = "save"
  /\ txn.todo = <<>>
  /\ txn.next > Len(found_devices)
  /\ device_table' = txn.devices
  /\ point_table' = txn.points
  /\ jobs' = [jobs EXCEPT ![job].status = "complete",
                          ![job].devicesFound = txn.devices_saved,
                          ![job].pointsFound = txn.points_saved]
  /\ job_log' = Append(job_log,
                       [job |-> job,
                        found |-> { found_devices[i] : i \in 1..Len(found_devices) },
                        points |-> { all_points[i] : i \in 1..Len(all_points) },
                        devicesFound |-> txn.devices_saved,
                        pointsFound |-> txn.points_saved,
                        devices |-> txn.devices,
                        rows |-> txn.points])
  /\ dpc' = "close"
  /\ found_devices' = <<>>
  /\ all_points' = <<>>
  /\ txn' = NoTxn
  /\ UNCHANGED <<job, tasks, faults>>
  /\ UNCHANGED <<engineVars, sinkVars>>

\* save_to_database: a statement of the transaction fails. The transaction is
\* rolled back and the job is updated as error, by save_to_database and again by
\* run_discovery with the exception it re-raised; or the connection is lost,
\* rollback raises as well and the UPDATE of run_discovery fails ("except:
\* pass"), which leaves the job as it was.
save_error ==
  /\ dpc = "save"
  /\ faults < MaxFaults
  /\ faults' = faults + 1
  /\ \/ jobs' = ErrorUpdate(jobs, job, "Discovery failed")
     \/ UNCHANGED jobs
  /\ dpc' = "sleep"
  /\ found_devices' = <<>>
  /\ all_points' = <<>>
  /\ txn' = NoTxn
  /\ UNCHANGED <<device_table, point_table, job, tasks, job_log>>
  /\ UNCHANGED <<engineVars, sinkVars>>

\* discovery_main: app.close() after the save. If it raises, the exception
\* leaves asyncio.run and run_discovery's handler updates the job as error.
app_close ==
  /\ dpc = "close"
  /\ \/ UNCHANGED <<jobs, faults>>
     \/ /\ faults < MaxFaults
        /\ faults' = faults + 1
        /\ jobs' = ErrorUpdate(jobs, job, "Discovery failed")
  /\ dpc' = "sleep"
  /\ UNCHANGED <<device_table, point_table, job, found_devices, all_points, tasks,
                 txn, job_log>>
  /\ UNCHANGED <<engineVars, sinkVars>>

\* poll_and_process_jobs: time.sleep(5), then the next poll.
job_sleep ==
  /\ dpc = "sleep"
  /\ dpc' = "poll"
  /\ job' = 0
  /\ UNCHANGED <<jobs, device_table, point_table, found_devices, all_points, tasks,
                 txn, faults, job_log>>
  /\ UNCHANGED <<engineVars, sinkVars>>

\* The discovery worker alone, the engine idle.
DiscoverySpecInit == InitWith({{}}, {120000}) /\ enable_batch_publishing = FALSE

DiscoveryNext ==
  \/ api_start_job
  \/ poll_jobs
  \/ run_discovery
  \/ do_IAmRequest
  \/ read_device_objects(Answered)
  \/ discovery_timeout
  \/ save_device
  \/ save_point
  \/ save_commit
  \/ save_error
  \/ app_close
  \/ job_sleep

DiscoverySpec == DiscoverySpecInit /\ [][DiscoveryNext]_vars

\* The next step of the job processor, a single sequential process, where it
\* depends on the worker alone: the SELECT returns, run_discovery gets to its
\* Who-Is or fails, asyncio.sleep(timeout) and time.sleep(5) end, each statement
\* of the transaction returns, and app.close() returns or raises.
WorkerStep ==
  \/ poll_jobs
  \/ run_discovery
  \/ discovery_timeout
  \/ save_device
  \/ save_point
  \/ save_commit
  \/ app_close
  \/ job_sleep

\* The job processor keeps running. Nothing is assumed of the devices, nor of
\* the API.
DiscoveryLiveSpec == DiscoverySpecInit /\ [][DiscoveryNext]_vars /\ WF_vars(WorkerStep)

\* ---- re-discovery of devices and points the user has configured ----

\* A configuration the user gives a point in the web UI.
UserPointConfig ==
  [enabled |-> FALSE, mqttPublish |-> TRUE, mqttTopic |-> "site_a/ahu_1/temp", qos |-> 2,
   pollInterval |-> 10, siteId |-> "Site A", equipmentType |-> "AHU", equipmentId |-> "1"]

\* A port the user gives a device in the web UI.
UserDevicePort == 47809

\* The user configures the rows the discovery has created: every device is
\* disabled and given another port, every point gets topic, QoS, interval and
\* tags and is disabled. The API updates the rows; the worker sees the tables
\* only in its statements, so the update is delivered before a poll.
user_edit ==
  /\ dpc = "poll"
  /\ \/ \E r \in device_table : r.enabled
     \/ \E r \in point_table : r.config = DefaultPointConfig
  /\ device_table' = { [r EXCEPT !.enabled = FALSE, !.port = UserDevicePort] : r \in device_table }
  /\ point_table' = { [r EXCEPT !.config = UserPointConfig] : r \in point_table }
  /\ UNCHANGED <<jobs, dpc, job, found_devices, all_points, tasks, txn, faults, job_log>>
  /\ UNCHANGED <<engineVars, sinkVars>>

RediscoverNext ==
  \/ api_start_job
  \/ poll_jobs
  \/ run_discovery
  \/ do_IAmRequest
  \/ read_device_objects(AnsweredOrNot)
  \/ discovery_timeout
  \/ save_device
  \/ save_point
  \/ save_commit
  \/ save_error
  \/ app_close
  \/ job_sleep
  \/ user_edit

\* The discovery worker with devices whose properties may not be read and a
\* user who configures the rows between the jobs.
RediscoverSpec == DiscoverySpecInit /\ [][RediscoverNext]_vars

ConfigNext ==
  \/ api_start_job
  \/ poll_jobs
  \/ run_discovery
  \/ do_IAmRequest
  \/ read_device_objects(Answered)
  \/ discovery_timeout
  \/ save_device
  \/ save_point
  \/ save_commit
  \/ save_error
  \/ app_close
  \/ job_sleep
  \/ user_edit

\* The discovery worker and a user who configures the rows between the jobs.
ConfigSpec == DiscoverySpecInit /\ [][ConfigNext]_vars

(* ------------------------------ properties ---------------------------- *)

\* The number of WriteResults published for jobId j.
ResultsFor(j) == Cardinality({ i \in 1..Len(write_results) : write_results[i].jobId = j })

\* C1 (WriteSpec): write commands are executed in arrival order. jobIds number
\* the commands in the order on_mqtt_message appended them, and write_log lists
\* the jobIds in the order their WriteProperty requests were sent: the log is
\* strictly increasing in every reachable state, however the appends of the
\* MQTT thread interleave with the pops of the main loop.
C1_WritesInArrivalOrder ==
  \A i, j \in 1..Len(write_log) : i < j => write_log[i] < write_log[j]

\* Two writes have been sent, the second for a command that arrived while the
\* queue already held an earlier one.
C1_Witness ==
  /\ Len(write_log) >= 2
  /\ pc = "write_wait"
  /\ pending_write_commands # <<>>

\* C2 (WriteSpec): every command taken from the queue gets exactly one
\* WriteResult with its jobId, whatever became of the write; a command still
\* queued, or still awaiting its reply, has none, and none ever has two.
C2_OneResultPerCommand ==
  \A j \in 1..msgs :
    IF j \in JobIds(pending_write_commands) THEN ResultsFor(j) = 0
    ELSE IF pc = "write_wait" /\ command.jobId = j THEN ResultsFor(j) = 0
    ELSE ResultsFor(j) = 1

\* Results are out for a write that timed out and for a value that could not
\* be encoded.
C2_Witness ==
  /\ \E j \in DOMAIN write_replies : write_replies[j] = "timeout" /\ ResultsFor(j) = 1
  /\ \E j \in DOMAIN write_replies : write_replies[j] = "encode" /\ ResultsFor(j) = 1

\* C3 (WriteSpec), the claim as stated: a write that was not acknowledged
\* (timeout, refusal by the peer, transport error, unencodable value) is
\* reported with success = false and an error string, and success = true is
\* reported only for an acknowledged write.
C3_FailedWriteReported ==
  \A i \in 1..Len(write_results) :
    LET r == write_results[i]
        reply == write_replies[r.jobId]
    IN /\ reply # "ack" => (~r.success /\ r.error # None)
       /\ r.success => reply = "ack"

\* C4 (WriteSpec): a write command is never retried. No jobId occurs twice
\* among the WriteProperty requests sent, and a request that timed out is
\* reported as failed without another request for it.
C4_NoWriteRetry ==
  /\ \A i, j \in 1..Len(write_log) : i # j => write_log[i] # write_log[j]
  /\ \A i \in 1..Len(write_results) :
       LET r == write_results[i]
       IN write_replies[r.jobId] = "timeout" =>
            /\ ~r.success
            /\ Cardinality({ k \in 1..Len(write_log) : write_log[k] = r.jobId }) = 1

\* A write timed out, its result is out, and the main loop went on to the next
\* command.
C4_Witness ==
  /\ \E j \in DOMAIN write_replies : write_replies[j] = "timeout" /\ ResultsFor(j) = 1
  /\ pc = "write_wait"
  /\ write_replies # <<>>
  /\ command.jobId \notin DOMAIN write_replies

\* C5 (Spec): the write queue is drained before the scheduler tick. While the
\* iteration is in poll_and_publish's for loop (before, during and after its
\* reads), every command that was queued when the iteration started has been
\* executed and has its result published.
C5_DrainedBeforePoll ==
  pc \in {"point", "read_wait", "retry_sleep"} =>
    \A j \in drain_snapshot :
      /\ ResultsFor(j) = 1
      /\ j \notin JobIds(pending_write_commands)
      /\ j \in DOMAIN write_replies
      /\ write_replies[j] # "encode" => j \in Range(write_log)

\* A ReadProperty is in flight in an iteration that started with two commands
\* queued.
C5_Witness ==
  /\ pc = "read_wait"
  /\ Cardinality(drain_snapshot) = 2

\* The time the current (or last) read_with_retry call has taken.
ReadElapsed == rd.ended - rd.started

\* base_timeout * (2^0 + ... + 2^max_retries) + max_retries * 500 ms.
RetryBound == base_timeout * (2 ^ (max_retries + 1) - 1) + max_retries * RetrySleepMs

\* C6 (ReadSpec): when the device never replies, the step that ends the read
\* has made max_retries + 1 = 4 attempts, the retries n = 1, 2, 3 with timeouts
\* base_timeout * 2^(n-1) = 6000, 12000, 24000 ms and a 500 ms sleep before
\* each; the read returns no value, the tick's failed counter goes up by
\* exactly 1 and nothing is published or put in a batch.
C6_SilentDeviceRead ==
  [][ (pc = "read_wait" /\ rd'.done /\ rd'.silent) =>
        /\ Len(rd'.timeouts) = max_retries + 1
        /\ SubSeq(rd'.timeouts, 2, 4) = <<6000, 12000, 24000>>
        /\ \A n \in 1..max_retries : rd'.timeouts[n + 1] = base_timeout * 2 ^ (n - 1)
        /\ rd'.sleeps = max_retries
        /\ rd'.value = None
        /\ stats'.failed = stats.failed + 1
        /\ stats'.success = stats.success
        /\ tick_pubs' = tick_pubs
        /\ equipment_groups' = equipment_groups ]_vars

\* A read of a silent device has ended and the tick counts one failure.
C6_Witness ==
  /\ rd.done
  /\ rd.silent
  /\ stats.failed = 1
  /\ tick_pubs = <<>>

\* C7 (ReadSpec): retry bound. From the first request to the return, for every
\* pattern of timeouts, errors and unusable answers across the attempts, a
\* read_with_retry call takes at most RetryBound, which is 91500 ms with
\* base_timeout = 6000 and max_retries = 3.
C7_RetryBound ==
  /\ RetryBound = 91500
  /\ ReadElapsed <= RetryBound

\* A read has failed after four attempts of which some timed out and some
\* raised.
C7_Witness ==
  /\ rd.done
  /\ rd.value = None
  /\ ~rd.silent
  /\ Len(rd.timeouts) = max_retries + 1
  /\ rd.sleeps = max_retries
  /\ ReadElapsed > AttemptTimeout(max_retries)

\* C8 (PollSpec): a failed read (read_with_retry returns no value) increments
\* the tick's failed counter and changes nothing else: no publication, no
\* entry in an equipment batch, no update of lastValue/lastPollTime, and
\* point_last_poll is left as it was.
C8_FailedReadFrame ==
  [][ (pc = "read_wait" /\ rd'.done /\ rd'.value = None) =>
        /\ stats' = [stats EXCEPT !.failed = @ + 1]
        /\ tick_pubs' = tick_pubs
        /\ equipment_groups' = equipment_groups
        /\ db_last' = db_last
        /\ point_last_poll' = point_last_poll ]_vars

\* A read failed in a tick in which another point was read and published.
C8_Witness ==
  /\ rd.done
  /\ rd.value = None
  /\ stats.failed = 1
  /\ stats.success = 1
  /\ tick_pubs # <<>>

\* C9 (PollSpec): in a tick read_with_retry is called at most once for a
\* point, and no two ReadProperty requests for a point are in flight together
\* (nor any two BACnet requests of the poller).
C9_OneReadPerPointPerTick ==
  /\ \A i, j \in 1..Len(tick_reads) : i # j => tick_reads[i] # tick_reads[j]
  /\ \A i, j \in 1..Len(inflight) :
       (i # j /\ inflight[i].svc = "read" /\ inflight[j].svc = "read")
         => inflight[i].target # inflight[j].target
  /\ Len(inflight) <= 1

\* Both points have been read in the tick, the second is at a retry.
C9_Witness ==
  /\ Len(tick_reads) = 2
  /\ pc = "read_wait"
  /\ attempt > 0
  /\ Len(inflight) = 1

\* C10 (PollSpec), the claim as stated: the first ReadProperty of a point first
\* seen at t0 is sent no earlier than the next minute boundary
\* ceil(t0 / 60 s) * 60 s and at most one tick period (5 s) after it.
C10_FirstReadAtMinute ==
  \A p \in DOMAIN first_read :
    LET boundary == CeilTo(first_seen[p], MinuteMs)
    IN /\ boundary <= first_read[p]
       /\ first_read[p] <= boundary + LoopSleepMs

\* The spec's nextDueAt[p] in the engine's state: p is due iff
\* current_time - point_last_poll[p] >= pollInterval, that is iff
\* current_time >= point_last_poll[p] + pollInterval.
NextDueAt(plp, p) == plp[p] + pollInterval(p)

\* C11 (PollSpec), the claim as stated: a successful read of p advances the
\* next-due time by exactly pollInterval; only when the tick is more than one
\* interval behind the due time does it advance to a later time congruent to
\* the old one modulo pollInterval and greater than now.
C11_NextDueAdvancesByInterval ==
  [][ (pc = "read_wait" /\ rd'.done /\ rd'.value # None) =>
        LET p == rd.p
            due == NextDueAt(point_last_poll, p)
            advanced == NextDueAt(point_last_poll', p)
        IN IF current_time - due > pollInterval(p)
             THEN (advanced - due) % pollInterval(p) = 0 /\ advanced > now'
             ELSE advanced = due + pollInterval(p) ]_vars

\* C12 (PollSpec), the claim as stated: a read that returns a value for a point
\* with an mqttTopic appends one individual publication for the point to the
\* tick's publications, and the schedule and lastValue are never advanced
\* without it.
C12_SuccessfulReadPublished ==
  [][ (pc = "read_wait" /\ rd'.done /\ rd'.value # None /\ mqttTopic(rd.p) # "") =>
        /\ Len(tick_pubs') = Len(tick_pubs) + 1
        /\ tick_pubs'[Len(tick_pubs')].kind = "individual"
        /\ tick_pubs'[Len(tick_pubs')].point = rd.p ]_vars

\* C13 (PollSpec): within a tick every individual publication precedes every
\* equipment batch (so a point's individual publication precedes the batch
\* that contains it), and no batch is out while the for loop is still reading.
C13_IndividualBeforeBatch ==
  /\ \A i, j \in 1..Len(tick_pubs) :
       (tick_pubs[i].kind = "individual" /\ tick_pubs[j].kind = "batch") => i < j
  /\ (\E j \in 1..Len(tick_pubs) : tick_pubs[j].kind = "batch")
       => pc \notin {"point", "read_wait", "retry_sleep"}

\* A tick has ended with the individual publication of point 1 and the batch
\* of its equipment, which contains point 1.
C13_Witness ==
  /\ pc = "sleep"
  /\ \E i, j \in 1..Len(tick_pubs) :
       /\ tick_pubs[i].kind = "individual" /\ tick_pubs[i].point = 1
       /\ tick_pubs[j].kind = "batch"
       /\ \E k \in 1..Len(tick_pubs[j].points) : tick_pubs[j].points[k].point = 1

\* C14 (ValueSpec), the claim as stated: no publication of the tick, individual
\* or equipment batch, carries a string that contains "bacpypes3" or
\* "object at".
C14_NoObjectStringPublished ==
  \A i \in 1..Len(tick_pubs) :
    /\ ~LooksLikeObject(tick_pubs[i].value)
    /\ \A k \in 1..Len(tick_pubs[i].points) : ~LooksLikeObject(tick_pubs[i].points[k].value)

\* p is due in the current tick.
Due(p) ==
  /\ p \in DOMAIN point_last_poll
  /\ current_time - point_last_poll[p] >= pollInterval(p)

\* C20 (FaultSpec), the claim as stated: when the tick ends, no point that is
\* due in it has been left unhandled behind the point the for loop stands at,
\* also when the handling of that point raised.
C20_FailingPointDoesNotStopTick ==
  [][ (pc = "point" /\ pc' = "sleep") =>
        \A i \in (idx + 1)..Len(points) : ~Due(points[i]) ]_vars

\* The dedup key of a row: its haystack_name and its time floored to the second.
RowKey(r) == <<r.haystack_name, r.time.sec>>

\* C15 (SinkSpec): while the stream has brought at most seen_limit = 1000
\* distinct dedup keys, sensor_readings holds at most one row per
\* (haystackName, timestamp truncated to the second).
C15_DedupLaw ==
  stream_keys <= seen_limit =>
    Cardinality({ RowKey(sensor_readings[i]) : i \in 1..Len(sensor_readings) })
      = Len(sensor_readings)

\* A message stamped .123 was inserted and one with the same haystackName
\* stamped .987 in the same second has just been dropped: one row.
C15_Witness ==
  /\ sink_last = [sec |-> 1, frac |-> 987, outcome |-> "dropped"]
  /\ sensor_readings = <<[haystack_name |-> HaystackName, time |-> Timestamp(1, 123)]>>

Closed == {"complete", "error"}

\* C16: the status of a discovery job only moves pending -> running ->
\* {complete, error}; a job that is complete or error keeps its status in every
\* later step, also when closing the BACnet application fails after the save.
C16_StatusTransitions ==
  [][\A j \in DiscoveryJobs :
       jobs'[j].status # jobs[j].status =>
         <<jobs[j].status, jobs'[j].status>> \in
           {<<"pending", "running">>, <<"running", "complete">>, <<"running", "error">>}]_vars

\* C17: a job that is running (waiting to be claimed, or claimed) eventually
\* has status complete, with its counts, or error, with an errorMessage; from
\* then on the worker does not claim it, and the jobs behind it are claimed
\* and closed in their turn.
C17_ClaimedJobClosed ==
  \A j \in DiscoveryJobs :
    (jobs[j].status = "running") ~>
      \/ jobs[j].status = "complete"
      \/ jobs[j].status = "error" /\ jobs[j].errorMessage # None

\* Both jobs have been claimed and closed, the second after the first, and one
\* of them after a run that failed.
C17_Witness ==
  /\ \A j \in DiscoveryJobs : jobs[j].status \in Closed
  /\ \E j \in DiscoveryJobs : jobs[j].status = "error" /\ jobs[j].errorMessage # None
  /\ \E j \in DiscoveryJobs : jobs[j].status = "complete"
  /\ dpc = "poll"

\* The objects of the devices of found that are not the device object itself.
ExpectedPoints(found) ==
  UNION { { [device_id |-> d, object_type |-> objectList(d)[k].type,
             object_instance |-> objectList(d)[k].instance] :
              k \in { n \in 1..Len(objectList(d)) : objectList(d)[n].type # "device" } } :
          d \in found }

\* C18: when a job completes, devicesFound is the number of devices that
\* answered the Who-Is, pointsFound the number of entries of their objectLists
\* other than the device objects, and each of them has its row.
C18_CountsMatchNetwork ==
  \A i \in 1..Len(job_log) :
    LET e == job_log[i]
        expected == ExpectedPoints(e.found)
    IN /\ e.devicesFound = Cardinality(e.found)
       /\ e.pointsFound = Cardinality(expected)
       /\ \A d \in e.found : \E r \in e.devices : r.deviceId = d
       /\ \A pt \in expected :
            \E r \in e.rows :
              /\ r.deviceId = DeviceDbId(e.devices, pt.device_id)
              /\ r.objectType = pt.object_type
              /\ r.objectInstance = pt.object_instance

DeviceKeys(table) == { r.deviceId : r \in table }

PointKeys(table) == { <<r.deviceId, r.objectType, r.objectInstance>> : r \in table }

\* C19: a second discovery that finds what the first one found leaves the
\* Device and Point tables as the first one left them: the same rows, one per
\* key, and none added.
C19_DiscoveryIdempotent ==
  \A i \in 1..Len(job_log) : \A k \in 1..Len(job_log) :
    (i < k /\ job_log[i].found = job_log[k].found /\ job_log[i].points = job_log[k].points) =>
      /\ job_log[k].devices = job_log[i].devices
      /\ job_log[k].rows = job_log[i].rows
      /\ Cardinality(DeviceKeys(job_log[k].devices)) = Cardinality(job_log[k].devices)
      /\ Cardinality(PointKeys(job_log[k].rows)) = Cardinality(job_log[k].rows)

\* Two jobs have completed, each having found both devices and all their objects.
C19_Witness ==
  /\ Len(job_log) = 2
  /\ job_log[1].found = NetDevices
  /\ job_log[2].found = NetDevices
  /\ job_log[1].points = job_log[2].points
  /\ Cardinality(job_log[2].points) = 3
  /\ Cardinality(point_table) = 3
  /\ Cardinality(device_table) = 2

\* C21: no exception raised in an iteration ends the engine: the step that
\* raises leads to the 5 s sleep, the sleep leads to the while test, the test
\* starts the next iteration unless the flag is set, and the loop is left only
\* from the while test with the flag set.
C21_ExceptionsDoNotStopEngine ==
  [][ /\ (pc # "stopped" /\ pc' = "stopped" => shutdown_requested /\ pc = "loop")
      /\ (caught' # caught => pc' = "sleep")
      /\ (pc = "sleep" /\ pc' # pc => pc' = "loop" /\ now' = now + LoopSleepMs)
      /\ (pc = "loop" /\ ~shutdown_requested /\ pc' # pc =>
            pc' = "pw_check" /\ ticks' = ticks + 1) ]_vars

\* An iteration polls after an earlier one raised.
C21_Witness == caught > 0 /\ pc = "read_wait" /\ ~shutdown_requested

\* C22: once a signal has set the flag no further iteration starts, and the
\* engine ends with the MQTT client disconnected, the database connection
\* closed and exit code 0.
C22_GracefulShutdown ==
  /\ [][shutdown_requested => ticks' = ticks]_vars
  /\ (shutdown_requested ~>
        (pc = "stopped" /\ mqtt_client = "disconnected" /\ db_conn = "closed"
           /\ exit_code = <<0>>))

\* The engine has exited on a signal before its last iteration.
C22_Witness ==
  pc = "stopped" /\ exit_code = <<0>> /\ ticks \in 1..(LifeTicks - 1) /\ inflight = <<>>

\* C23: the MQTT callback only appends to the queue and sends no BACnet
\* request; a request is sent only by the main loop (the write executor, the
\* poller or its retry), and at most one request is outstanding.
C23_CallbackDoesNoBacnetIO ==
  [][ /\ (msgs' # msgs =>
            /\ inflight' = inflight
            /\ write_log' = write_log
            /\ tick_reads' = tick_reads
            /\ Len(pending_write_commands') = Len(pending_write_commands) + 1)
      /\ (Len(inflight') > Len(inflight) => pc \in {"pw_pop", "point", "retry_sleep"})
      /\ Len(inflight') <= 1 ]_vars

\* A command is queued while a ReadProperty request is outstanding.
C23_Witness ==
  pc = "read_wait" /\ Len(inflight) = 1 /\ pending_write_commands # <<>>

C25_InsertedAfterReconnect ==
  sink_last.outcome = "reconnected" =>
    \E i \in 1..Len(sensor_readings) :
      sensor_readings[i].time = Timestamp(sink_last.sec, sink_last.frac)

\* C26: for a command with a priority outside 1..16 no WriteProperty request
\* is sent and an error result is published.
C26_InvalidCommandRejected ==
  command.priority \notin 1..16 =>
    /\ command.jobId \notin Range(write_log)
    /\ \E i \in 1..Len(write_results) :
         write_results[i].jobId = command.jobId /\ ~write_results[i].success

\* b is the first minute boundary at or after t.
IsNextMinute(b, t) == b % MinuteMs = 0 /\ b >= t /\ b < t + MinuteMs

\* A minute boundary lies in from..to.
MinuteReached(from, to) ==
  \E k \in 0..(to \div MinuteMs) : from <= k * MinuteMs /\ k * MinuteMs <= to

\* C27: the tick that first observes a point sends no ReadProperty for it and
\* sets its next-due time to the next minute boundary; a tick reads a point
\* seen before iff it starts at or after the point's next-due time, never
\* before the boundary that followed the first observation, and a point that
\* is not due is skipped with its scheduler entry unchanged.
C27_FirstObservationThenDue ==
  [][ pc = "point" /\ idx <= Len(points) =>
        LET p == points[idx]
        IN IF p \notin DOMAIN point_last_poll
             THEN /\ tick_reads' = tick_reads
                  /\ inflight' = inflight
                  /\ IsNextMinute(NextDueAt(point_last_poll', p), current_time)
             ELSE IF current_time >= NextDueAt(point_last_poll, p)
               THEN /\ tick_reads' = Append(tick_reads, p)
                    /\ inflight' = <<[svc |-> "read", target |-> p]>>
                    /\ MinuteReached(first_seen[p], current_time)
               ELSE /\ tick_reads' = tick_reads
                    /\ inflight' = inflight
                    /\ point_last_poll' = point_last_poll ]_vars

\* A tick has read one point seen before and skipped another that was not due.
C27_Witness ==
  /\ pc = "point"
  /\ stats.total > 0
  /\ stats.skipped > 0
  /\ \A i \in 1..Len(points) : points[i] \in DOMAIN first_seen
                                  /\ first_seen[points[i]] < current_time

\* The object type family of a command.
Family(c) ==
  CASE c.objectType \in AnalogTypes -> "analog"
    [] c.objectType \in BinaryTypes -> "binary"
    [] c.objectType \in MultiStateTypes -> "multiState"
    [] OTHER -> "other"

\* C28: the request of a write carries Null for a release whatever the value
\* and the object type, Real(value) for analog, Unsigned 1 or 0 for binary and
\* Unsigned(value) for multiState; a value that does not convert sends no
\* request and gets an error result.
C28_WireValueByFamily ==
  [][ pc = "pw_pop" /\ pc' # pc =>
        LET c == Head(pending_write_commands)
            sent == inflight'[Len(inflight')].value
            refused ==
              /\ inflight' = inflight
              /\ write_log' = write_log
              /\ Len(write_results') = Len(write_results) + 1
              /\ write_results'[Len(write_results')].jobId = c.jobId
              /\ ~write_results'[Len(write_results')].success
        IN IF c.release
             THEN Len(inflight') = Len(inflight) + 1 /\ sent = [tag |-> "Null", n |-> 0]
           ELSE IF Family(c) = "binary"
             THEN /\ Len(inflight') = Len(inflight) + 1
                  /\ sent.tag = "Unsigned"
                  /\ sent.n \in {0, 1}
                  /\ (sent.n = 1 <=> Truthy(c.value))
           ELSE IF c.value.t # "num" THEN refused
           ELSE /\ Len(inflight') = Len(inflight) + 1
                /\ sent = [tag |-> IF Family(c) = "multiState" THEN "Unsigned" ELSE "Real",
                            n |-> c.value.n] ]_vars

\* The release of an analog output with value null was sent as Null and
\* acknowledged.
C28_Witness ==
  /\ command.release
  /\ command.value = Null
  /\ Family(command) = "analog"
  /\ command.jobId \in Range(write_log)
  /\ \E i \in 1..Len(write_results) :
       /\ write_results[i].jobId = command.jobId
       /\ write_results[i].release
       /\ write_results[i].success

\* The points of equipment key whose read gave a value in the current tick
\* (the tick wrote their lastPollTime).
SucceededInTick(key) ==
  { p \in DOMAIN db_last : db_last[p] = current_time /\ equipmentKey(p) = key }

\* C29: a batch is published only with enableBatchPublishing, a tick
\* publishes at most one batch per equipment key, the key of a batch has its
\* three tags, and the batch holds, once each and with a value, exactly the
\* points of its key whose read succeeded in the tick.
C29_BatchContents ==
  LET batches == { i \in 1..Len(tick_pubs) : tick_pubs[i].kind = "batch" }
  IN /\ (batches # {} => enable_batch_publishing)
     /\ \A i, j \in batches : tick_pubs[i].key = tick_pubs[j].key => i = j
     /\ \A i \in batches :
          LET b == tick_pubs[i]
          IN /\ \A t \in 1..3 : b.key[t] # ""
             /\ { b.points[k].point : k \in 1..Len(b.points) } = SucceededInTick(b.key)
             /\ Len(b.points) = Cardinality(SucceededInTick(b.key))
             /\ \A k \in 1..Len(b.points) : b.points[k].value # None

\* A tick read both points with success and published one batch, which holds
\* point 1 and not point 2, whose siteId is missing.
C29_Witness ==
  /\ pc = "sleep"
  /\ 2 \in DOMAIN db_last
  /\ db_last[2] = current_time
  /\ \E i \in 1..Len(tick_pubs) :
       /\ tick_pubs[i].kind = "batch"
       /\ Len(tick_pubs[i].points) = 1
       /\ tick_pubs[i].points[1].point = 1

\* C30: the cache never holds more than 1000 keys after a message; the
\* insertion that makes it exceed 1000 evicts exactly the 100 keys inserted
\* earliest and keeps every other key in order, the new key last.
C30_DedupWindowBounded ==
  [][ /\ Len(seen_messages') <= seen_limit
      /\ (seen_messages' # seen_messages =>
            LET key == DedupKey(HaystackName, Timestamp(sink_last'.sec, sink_last'.frac))
                before == seen_messages
                after == seen_messages'
            IN /\ after[Len(after)] = key
               /\ ~InSeen(before, key)
               /\ IF Len(before) + 1 > 1000
                    THEN /\ Len(after) = Len(before) + 1 - 100
                         /\ \A i \in 1..(Len(after) - 1) : after[i] = before[i + 100]
                    ELSE after = Append(before, key)) ]_vars

\* The 1001st key has been inserted and the 100 oldest keys are gone.
C30_Witness ==
  /\ stream_keys = 1001
  /\ Len(seen_messages) = 901
  /\ seen_messages[1] = DedupKey(HaystackName, Timestamp(101, 123))
  /\ seen_messages[901] = DedupKey(HaystackName, Timestamp(1001, 123))

\* C36: every dedup key in seen_messages is the key of a row of
\* sensor_readings.
C36_SeenOnlyIfInserted ==
  \A i \in 1..Len(seen_messages) :
    \E j \in 1..Len(sensor_readings) : RowKey(sensor_readings[j]) = seen_messages[i]

\* C37: a handled message adds 1 to messages_received, adds 1 to
\* messages_written exactly when it added a row to sensor_readings, and is
\* never counted both as written and as an error.
C37_CountersConsistent ==
  [][ <<sink_last, sink_counted, sensor_readings>>' # <<sink_last, sink_counted, sensor_readings>> =>
        /\ "messages_received" \in sink_counted'
        /\ ("messages_written" \in sink_counted') <=>
             (Len(sensor_readings') = Len(sensor_readings) + 1)
        /\ ~ ({"messages_written", "errors"} \subseteq sink_counted') ]_vars

\* C31: a message without a timestamp is dropped as a duplicate only if a row
\* of the same haystackName stamped in the second of its arrival is stored;
\* two such messages that arrive in different seconds are both inserted.
C31_UnstampedKeyedByArrival ==
  (sink_last.outcome = "dropped" /\ sink_last.payload.timestamp = NoTimestamp) =>
    \E i \in 1..Len(sensor_readings) :
      /\ sensor_readings[i].haystack_name = sink_last.payload.haystackName
      /\ sensor_readings[i].time.sec = sink_last.sec

\* C38: a reading is dropped as a duplicate only if a reading of the same
\* point with the same timestamp is stored; readings of two points published
\* in one tick are both inserted.
C38_OtherPointNotDropped ==
  (sink_last.outcome = "dropped" /\ sink_last.payload.timestamp = TickTimestamp) =>
    \E i \in 1..Len(sensor_readings) :
      /\ sensor_readings[i].object_instance = sink_last.payload.objectInstance
      /\ sensor_readings[i].time = TickTimestamp

\* The (device, objectType, objectInstance) keys among the points found.
FoundPointKeys(found) == { <<pt.device_id, pt.object_type, pt.object_instance>> : pt \in found }

\* C39: the counters of a completed job count distinct things: devicesFound is
\* the number of distinct device ids that sent an I-Am, pointsFound the number
\* of distinct (device, objectType, objectInstance) read before the save.
C39_CountsDistinct ==
  \A i \in 1..Len(job_log) :
    /\ job_log[i].devicesFound = Cardinality(job_log[i].found)
    /\ job_log[i].pointsFound = Cardinality(FoundPointKeys(job_log[i].points))

\* C32: when a job completes, the Point row of every object the job read has
\* isWritable equal to whether the job read the object's priorityArray (where
\* the handlers of the job agree on it), whether the job inserted the row or
\* found it.
C32_WritableAsRead ==
  \A i \in 1..Len(job_log) :
    LET e == job_log[i]
    IN \A pt \in e.points :
         (\A q \in e.points :
            FoundPointKeys({q}) = FoundPointKeys({pt}) => q.priorityArray = pt.priorityArray) =>
           \A r \in e.rows :
             SamePoint(r, DeviceDbId(e.devices, pt.device_id), pt) =>
               r.isWritable = pt.priorityArray

\* Every Device row of before has its row in after, with the same id, key,
\* enabled and port.
DevicesKept(before, after) ==
  \A r \in before :
    \E n \in after :
      /\ n.id = r.id /\ n.deviceId = r.deviceId
      /\ n.enabled = r.enabled /\ n.port = r.port

\* Every Point row of before has its row in after, with the same id, key and
\* user-authored configuration.
PointsKept(before, after) ==
  \A r \in before :
    \E n \in after :
      /\ n.id = r.id /\ n.deviceId = r.deviceId
      /\ n.objectType = r.objectType /\ n.objectInstance = r.objectInstance
      /\ n.config = r.config

\* C40: no statement of save_to_database, and not its commit, deletes a Device
\* or Point row or changes a row's user-authored configuration (Device enabled
\* and port; Point enabled, mqttPublish, mqttTopic, qos, pollInterval, tags).
C40_UpsertKeepsConfig ==
  [][ dpc = "save" =>
        /\ DevicesKept(device_table, device_table')
        /\ PointsKept(point_table, point_table')
        /\ dpc' = "save" =>
             /\ DevicesKept(txn.devices, txn'.devices)
             /\ PointsKept(txn.points, txn'.points) ]_vars

\* Two jobs have completed; the second found again a device the user had
\* disabled and moved to another port, whose name it updated, and a point the
\* user had configured.
C40_Witness ==
  /\ Len(job_log) = 2
  /\ \E r \in job_log[2].devices :
       /\ r.deviceId \in job_log[2].found
       /\ ~r.enabled /\ r.port = UserDevicePort
       /\ \E o \in job_log[1].devices : o.id = r.id /\ o.deviceName # r.deviceName
  /\ \E r \in job_log[2].rows :
       /\ r.config = UserPointConfig
       /\ \E pt \in job_log[2].points :
            SamePoint(r, DeviceDbId(job_log[2].devices, pt.device_id), pt)

\* C33: a ReadProperty for a point is sent only in a tick that starts at least
\* pollInterval after the start of the tick of the point's last successful
\* read (db_last, while the database answers), and so is every successful
\* read, which then becomes the last one.
C33_MinimumSpacing ==
  [][ /\ (pc = "point" /\ pc' = "read_wait") =>
           LET p == points[idx]
           IN p \in DOMAIN db_last => current_time - db_last[p] >= pollInterval(p)
      /\ (pc = "read_wait" /\ rd'.done /\ rd'.value # None) =>
           /\ rd.p \in DOMAIN db_last => current_time - db_last[rd.p] >= pollInterval(rd.p)
           /\ db_last'[rd.p] = current_time ]_vars

\* A read of point 1 is in flight in a later tick than its last successful
\* read, and a write command was executed since the engine started.
C33_Witness ==
  /\ pc = "read_wait"
  /\ rd.p = 1
  /\ 1 \in DOMAIN db_last
  /\ db_last[1] < current_time
  /\ write_results # <<>>

\* The number of times the command with jobId j is in the queue q.
TimesQueued(q, j) == Cardinality({ i \in 1..Len(q) : q[i].jobId = j })

\* The command with jobId j is the one whose write is being awaited.
Awaited(j) == pc = "write_wait" /\ command.jobId = j

\* Every command enqueued so far is in exactly one place: once in the queue,
\* being executed, or executed with one result and at most one request.
ExactlyOnce ==
  \A j \in 1..msgs :
    /\ TimesQueued(pending_write_commands, j)
         + (IF Awaited(j) THEN 1 ELSE 0)
         + (IF j \in DOMAIN write_replies THEN 1 ELSE 0) = 1
    /\ ResultsFor(j) = (IF j \in DOMAIN write_replies THEN 1 ELSE 0)
    /\ Cardinality({ i \in 1..Len(write_log) : write_log[i] = j }) <= 1

\* C34: the write queue neither loses nor duplicates a command, however the
\* appends of the MQTT thread interleave with the pops of the main loop, and
\* when process_write_commands returns every command enqueued so far has been
\* executed, those that arrived during the drain included.
C34_QueueExactlyOnce ==
  [][ /\ ExactlyOnce'
      /\ (pc = "pw_check" /\ pc' = "poll") =>
           \A j \in 1..msgs : j \in DOMAIN write_replies /\ ResultsFor(j) = 1 ]_vars

\* The drain of an iteration that started with command 1 queued has returned;
\* command 2, which arrived during the drain, has been executed in it as well.
C34_Witness ==
  /\ pc = "poll"
  /\ drain_snapshot = {1}
  /\ 2 \in DOMAIN write_replies
  /\ 2 \in Range(write_log)
  /\ pending_write_commands = <<>>

\* C35: in every iteration of the main loop poll_and_publish starts: once
\* process_write_commands has been called, it returns and the poll begins.
C35_PollNotStarved == (pc = "pw_check") ~> (pc = "poll")

====
